---- MODULE Spec2Model ----
(***************************************************************************)
(* Cursor changelog extension: the consolidation / ordering pipeline of    *)
(* utils/changelog.ts and the persisted snapshot it maintains.             *)
(*                                                                         *)
(* Strings that the code takes apart (version strings) are sequences of    *)
(* tokens: a run of digits is the natural number it denotes, and the       *)
(* characters ".", "-" and "x" are the negative tokens DOT, DASH and X.    *)
(* "0.48.x" is <<0, DOT, 48, DOT, X>>.  Descriptions and links, which      *)
(* the consolidation only compares and measures, are strings.              *)
(* An optional value (detailLink?: string) is <<>> when undefined and      *)
(* <<s>> when it is the string s.                                          *)
(***************************************************************************)
EXTENDS Integers, Sequences, FiniteSets, TLC

DOT == 0 - 1
DASH == 0 - 2
X == 0 - 3

Undefined == <<>>
Some(s) == <<s>>

(***************************************************************************)
(* Bounds of the model.                                                    *)
(***************************************************************************)
MaxEntries == 3
MaxCalls == 2
MaxParts == 3
MaxBlocks == 3

(***************************************************************************)
(* String primitives on token sequences.                                   *)
(***************************************************************************)
Ver(a, b, c) == <<a, DOT, b, DOT, c>>

\* String.prototype.startsWith("0.")
startsWithZeroDot(v) == Len(v) >= 2 /\ v[1] = 0 /\ v[2] = DOT

\* String.prototype.includes(tok) for a one-character needle
includes(s, tok) == \E i \in 1..Len(s) : s[i] = tok

\* String.prototype.split(sep) for a one-character separator
RECURSIVE splitFrom(_, _, _)
splitFrom(s, sep, cur) ==
  IF s = <<>> THEN <<cur>>
  ELSE IF Head(s) = sep THEN <<cur>> \o splitFrom(Tail(s), sep, <<>>)
  ELSE splitFrom(Tail(s), sep, Append(cur, Head(s)))

split(s, sep) == splitFrom(s, sep, <<>>)

\* String.prototype.replace("x", "999"): the first occurrence only
RECURSIVE replaceX(_)
replaceX(s) ==
  IF s = <<>> THEN <<>>
  ELSE IF Head(s) = X THEN <<999>> \o Tail(s)
  ELSE <<Head(s)>> \o replaceX(Tail(s))

\* isNaN(parseInt(p)) ? 0 : parseInt(p): parseInt reads the leading digits
\* of p and is NaN when p does not start with a digit
parseIntOrZero(p) == IF p # <<>> /\ p[1] >= 0 THEN p[1] ELSE 0

\* parts[i] || 0 (i counts from 1 here)
partOrZero(parts, i) == IF i <= Len(parts) THEN parts[i] ELSE 0

Max(a, b) == IF a >= b THEN a ELSE b

\* variant: a range is read by its last endpoint, as getVersionTuple reads it
versionPartsOfLastEnd(v) ==
  LET ends == split(v, DASH)
      ps == split(ends[Len(ends)], DOT)
  IN [i \in 1..Len(ps) |-> parseIntOrZero(ps[i])]

\* v.split(".").map(p => isNaN(parseInt(p)) ? 0 : parseInt(p))
versionParts(v) ==
  LET ps == split(v, DOT) IN [i \in 1..Len(ps) |-> parseIntOrZero(ps[i])]

\* the comparison loops of both sort callbacks: aVal - bVal at the first
\* index where the zero-padded tuples differ, 0 when there is none
compareParts(aParts, bParts) ==
  LET n == Max(Len(aParts), Len(bParts))
      diff == {i \in 1..n : partOrZero(aParts, i) # partOrZero(bParts, i)}
  IN IF diff = {} THEN 0
     ELSE LET i == CHOOSE k \in diff : \A j \in diff : k <= j
          IN partOrZero(aParts, i) - partOrZero(bParts, i)

ascending(a, b) == compareParts(versionParts(a), versionParts(b))

getVersionTuple(versionStr) ==
  LET v1 == IF includes(versionStr, DASH) THEN split(versionStr, DASH)[2]
            ELSE versionStr
      parts == split(replaceX(v1), DOT)
  IN [i \in 1..Len(parts) |-> parseIntOrZero(parts[i])]

\* variant: the callback returns aVal - bVal
oldestFirst(a, b) ==
  compareParts(getVersionTuple(a.version), getVersionTuple(b.version))

newestFirst(a, b) ==
  compareParts(getVersionTuple(b.version), getVersionTuple(a.version))

\* the two sort callbacks of consolidateVersions
compare(callback, a, b) ==
  IF callback = "ascending" THEN ascending(a, b) ELSE newestFirst(a, b)

\* Array.prototype.sort(cmp): a stable sort; cmp(a, b) > 0 puts b before a
RECURSIVE insertSorted(_, _, _)
insertSorted(sorted, e, callback) ==
  IF sorted = <<>> THEN <<e>>
  ELSE LET last == sorted[Len(sorted)] IN
       IF compare(callback, last, e) > 0
       THEN Append(insertSorted(SubSeq(sorted, 1, Len(sorted) - 1), e, callback), last)
       ELSE Append(sorted, e)

RECURSIVE sortFrom(_, _, _)
sortFrom(done, rest, callback) ==
  IF rest = <<>> THEN done
  ELSE sortFrom(insertSorted(done, Head(rest), callback), Tail(rest), callback)

sort(s, callback) == sortFrom(<<>>, s, callback)

(***************************************************************************)
(* consolidateVersions.  A PatchMap (patchesDict) is the sequence of its   *)
(* entries in insertion order, which is the order Object.entries yields    *)
(* for keys that are not array indices.                                    *)
(***************************************************************************)
groupIndex(grouped, description) ==
  IF \E k \in 1..Len(grouped) : grouped[k].description = description
  THEN CHOOSE k \in 1..Len(grouped) : grouped[k].description = description
  ELSE 0

addToGroup(grouped, e) ==
  LET idx == groupIndex(grouped, e.description)
      g0 == IF idx = 0
            THEN Append(grouped, [description |-> e.description,
                                  versions |-> <<>>,
                                  detailLink |-> e.detailLink])
            ELSE grouped
      k == IF idx = 0 THEN Len(g0) ELSE idx
      link == IF g0[k].detailLink = Undefined /\ e.detailLink # Undefined
              THEN e.detailLink ELSE g0[k].detailLink
  IN [g0 EXCEPT ![k] = [description |-> g0[k].description,
                        versions |-> Append(g0[k].versions, e.version),
                        detailLink |-> link]]

RECURSIVE groupByDescription(_, _)
groupByDescription(entries, grouped) ==
  IF entries = <<>> THEN grouped
  ELSE groupByDescription(Tail(entries), addToGroup(grouped, Head(entries)))

\* variant: every version of the group is kept
filterValidKeepsAll(versions) == versions

\* variant: only the members without a wildcard component are kept
filterValidStrict(versions) ==
  SelectSeq(versions, LAMBDA v : startsWithZeroDot(v) /\ ~includes(v, X))

filterValid(versions) == SelectSeq(versions, startsWithZeroDot)

isConsecutive(prev, curr) ==
  LET prevParts == versionParts(prev)
      currParts == versionParts(curr)
  IN /\ Len(prevParts) = 3 /\ Len(currParts) = 3
     /\ prevParts[1] = currParts[1]
     /\ prevParts[2] = currParts[2]
     /\ prevParts[3] + 1 = currParts[3]

\* the loop over validVersions[1..]: ranges closed so far, and currentRange
RECURSIVE groupConsecutive(_, _, _, _)
groupConsecutive(validVersions, i, ranges, currentRange) ==
  IF i > Len(validVersions) THEN Append(ranges, currentRange)
  ELSE IF isConsecutive(validVersions[i - 1], validVersions[i])
       THEN groupConsecutive(validVersions, i + 1, ranges,
                             Append(currentRange, validVersions[i]))
       ELSE groupConsecutive(validVersions, i + 1, Append(ranges, currentRange),
                             <<validVersions[i]>>)

\* variant: a run is labelled by its minor series
rangeVersionSeries(rangeGroup) == SubSeq(rangeGroup[1], 1, 4) \o <<X>>

rangeVersion(rangeGroup) ==
  IF Len(rangeGroup) = 1 THEN rangeGroup[1]
  ELSE rangeGroup[1] \o <<DASH>> \o rangeGroup[Len(rangeGroup)]

groupRecords(g) ==
  IF g.description = "" \/ Len(g.description) < 10 THEN <<>>
  ELSE LET validVersions == filterValid(g.versions) IN
       IF Len(validVersions) = 0 THEN <<>>
       ELSE LET sorted == sort(validVersions, "ascending")
                ranges == groupConsecutive(sorted, 2, <<>>, <<sorted[1]>>)
            IN [r \in 1..Len(ranges) |->
                  [version |-> rangeVersion(ranges[r]),
                   description |-> g.description,
                   detailLink |-> g.detailLink]]

RECURSIVE emitAll(_)
emitAll(grouped) ==
  IF grouped = <<>> THEN <<>>
  ELSE groupRecords(Head(grouped)) \o emitAll(Tail(grouped))

\* the list `consolidated` as it stands before the final sort
emitted(patchesDict) == emitAll(groupByDescription(patchesDict, <<>>))

consolidateVersions(patchesDict) == sort(emitted(patchesDict), "newestFirst")

(***************************************************************************)
(* cleanDescription.  A description fragment is a sequence of text tokens, *)
(* each a string: " " and "\n" are the whitespace characters, the          *)
(* characters . , : ; - ( ) [ ] # stand alone, a run of digits is one      *)
(* token, a URL (http://... or https://... up to the next whitespace or    *)
(* bracket) is one token, the words "of", "until" and "nightly" stand      *)
(* alone, and any other token is a stretch of plain prose that starts and  *)
(* ends with a letter or a full stop and has single spaces inside.         *)
(***************************************************************************)
Whitespace == { " ", "\n" }
Urls == { "https://cursor.com/a", "https://cursor.com/b", "https://x.com/y" }
DigitRuns == { ToString(n) : n \in 0..99 }

RECURSIVE dropWhile(_, _)
dropWhile(s, set) ==
  IF s # <<>> /\ Head(s) \in set THEN dropWhile(Tail(s), set) ELSE s

RECURSIVE reverse(_)
reverse(s) == IF s = <<>> THEN <<>> ELSE Append(reverse(Tail(s)), Head(s))

\* String.prototype.trim
trim(s) == reverse(dropWhile(reverse(dropWhile(s, Whitespace)), Whitespace))

\* replace(/^[set]+\s*/, ""): a leading run of characters of the set, and
\* the whitespace after it
stripLeading(s, set) ==
  IF s # <<>> /\ Head(s) \in set
  THEN dropWhile(dropWhile(s, set), Whitespace)
  ELSE s

\* index of the first token equal to tok at or after position i, 0 if none
firstAt(s, tok, i) ==
  IF \E k \in i..Len(s) : s[k] = tok
  THEN CHOOSE k \in i..Len(s) : s[k] = tok /\ \A j \in i..(k - 1) : s[j] # tok
  ELSE 0

\* replace(/\[([^\]]+)\]\([^)]+\)/g, "$1")
RECURSIVE replaceLinks(_)
replaceLinks(s) ==
  IF s = <<>> THEN <<>>
  ELSE LET j == firstAt(s, "]", 2)
           k == IF j = 0 THEN 0 ELSE firstAt(s, ")", j + 2)
       IN IF /\ Head(s) = "["
             /\ j > 2
             /\ j + 1 <= Len(s) /\ s[j + 1] = "("
             /\ k > j + 2
          THEN SubSeq(s, 2, j - 1) \o replaceLinks(SubSeq(s, k + 1, Len(s)))
          ELSE <<Head(s)>> \o replaceLinks(Tail(s))

\* position of the first space inside a token, 0 if it has none
firstSpace(tok) ==
  IF \E k \in 1..Len(tok) : SubSeq(tok, k, k) = " "
  THEN CHOOSE k \in 1..Len(tok) :
         /\ SubSeq(tok, k, k) = " "
         /\ \A j \in 1..(k - 1) : SubSeq(tok, j, j) # " "
  ELSE 0

\* what is left of s after \S+ has run over its start: the match ends at
\* the first whitespace, also when that is a space inside a stretch of prose
RECURSIVE afterNonSpace(_)
afterNonSpace(s) ==
  IF s = <<>> THEN <<>>
  ELSE IF Head(s) \in Whitespace THEN s
  ELSE IF firstSpace(Head(s)) # 0
  THEN <<" ", SubSeq(Head(s), firstSpace(Head(s)) + 1, Len(Head(s)))>> \o Tail(s)
  ELSE afterNonSpace(Tail(s))

\* replace(/https?:\/\/\S+/g, ""): the URL and whatever follows it up to
\* the next whitespace
RECURSIVE removeUrls(_)
removeUrls(s) ==
  IF s = <<>> THEN <<>>
  ELSE IF Head(s) \in Urls THEN removeUrls(afterNonSpace(Tail(s)))
  ELSE <<Head(s)>> \o removeUrls(Tail(s))

\* replace(/^##\s*/, "")
stripHeading(s) ==
  IF Len(s) >= 2 /\ s[1] = "#" /\ s[2] = "#"
  THEN dropWhile(SubSeq(s, 3, Len(s)), Whitespace)
  ELSE s

\* replace(/^\d+\):\s*/, "")
stripRangeArtifact(s) ==
  IF Len(s) >= 3 /\ s[1] \in DigitRuns /\ s[2] = ")" /\ s[3] = ":"
  THEN dropWhile(SubSeq(s, 4, Len(s)), Whitespace)
  ELSE s

\* replace(/^nightly\s*/i, "")
stripNightly(s) ==
  IF s # <<>> /\ Head(s) \in { "nightly", "Nightly", "NIGHTLY" }
  THEN dropWhile(Tail(s), Whitespace)
  ELSE s

\* replace(/\s*\n\s*/g, " ") followed by replace(/\s+/g, " "): every run of
\* whitespace becomes one space
RECURSIVE collapseWhitespace(_)
collapseWhitespace(s) ==
  IF s = <<>> THEN <<>>
  ELSE IF Head(s) \in Whitespace
       THEN <<" ">> \o collapseWhitespace(dropWhile(s, Whitespace))
       ELSE <<Head(s)>> \o collapseWhitespace(Tail(s))

\* the characters of a token sequence as one string
RECURSIVE join(_)
join(s) == IF s = <<>> THEN "" ELSE Head(s) \o join(Tail(s))

\* desc.startsWith("of ") || desc.startsWith("until ")
startsTruncated(s) ==
  Len(s) >= 2 /\ s[1] \in { "of", "until" } /\ s[2] = " "

\* variant: bare URLs are deleted before the links are rewritten
cleanDescriptionUrlsFirst(desc) ==
  LET d1 == trim(desc)
      d2 == stripLeading(d1, { ".", ",", ":", ";", "-", ")", "]" })
      d3 == removeUrls(d2)
      d4 == replaceLinks(d3)
      d5 == stripHeading(d4)
      d6 == stripRangeArtifact(d5)
      d7 == stripLeading(d6, { ")", ":", "]", "[" })
      d8 == stripNightly(d7)
      d9 == collapseWhitespace(d8)
  IN IF startsTruncated(d9) THEN "" ELSE join(trim(d9))

cleanDescription(desc) ==
  LET d1 == trim(desc)
      d2 == stripLeading(d1, { ".", ",", ":", ";", "-", ")", "]" })
      d3 == replaceLinks(d2)
      d4 == removeUrls(d3)
      d5 == stripHeading(d4)
      d6 == stripRangeArtifact(d5)
      d7 == stripLeading(d6, { ")", ":", "]", "[" })
      d8 == stripNightly(d7)
      d9 == collapseWhitespace(d8)
  IN IF startsTruncated(d9) THEN "" ELSE join(trim(d9))

(***************************************************************************)
(* The fetched markdown is the sequence of its lines.  A line is one of:   *)
(*   marker          "0.48.x"            a wildcard marker starting a line *)
(*   heading         "## [title](link)"                                    *)
(*   blank           ""                                                    *)
(*   para            prose without digits and without a capital Z          *)
(*   patches         "0.47.1: text - 0.47.2: text ..."   one item or more, *)
(*                   the text of an item being prose without digits        *)
(*   number          "1000 users"        a line starting with 3-4 digits   *)
(*   patchesHeading  "### Patches"                                         *)
(*   subheading      "### Features"                                        *)
(*   zline           "Zed integration"   a line starting with a capital Z  *)
(* The patterns of updateChangelog are read as what they match on such a   *)
(* text.  In a JavaScript pattern without the u flag \Z is the letter Z.   *)
(***************************************************************************)
Line(kind, version, link, text, items) ==
  [kind |-> kind, version |-> version, link |-> link, text |-> text, items |-> items]

MarkerLine(v) == Line("marker", v, "", <<>>, <<>>)
HeadingLine(title, url) == Line("heading", <<>>, url, <<title>>, <<>>)
BlankLine == Line("blank", <<>>, "", <<>>, <<>>)
ParaLine(text) == Line("para", <<>>, "", text, <<>>)
PatchesLine(items) == Line("patches", <<>>, "", <<>>, items)
NumberLine == Line("number", <<>>, "", <<"1000", " ", "users">>, <<>>)
PatchesHeading == Line("patchesHeading", <<>>, "", <<"#", "#", "#", " ", "Patches">>, <<>>)
SubHeading == Line("subheading", <<>>, "", <<"#", "#", "#", " ", "Features">>, <<>>)
ZLine == Line("zline", <<>>, "", <<"Zed integration">>, <<>>)

Item(v, text) == [version |-> v, text |-> text]

renderVersion(v) ==
  [i \in 1..Len(v) |->
     IF v[i] = DOT THEN "." ELSE IF v[i] = DASH THEN "-"
     ELSE IF v[i] = X THEN "x" ELSE ToString(v[i])]

RECURSIVE renderItems(_)
renderItems(items) ==
  IF items = <<>> THEN <<>>
  ELSE renderVersion(Head(items).version) \o <<":", " ">> \o Head(items).text
       \o (IF Len(items) > 1 THEN <<" ", "-", " ">> ELSE <<>>)
       \o renderItems(Tail(items))

renderLine(l) ==
  CASE l.kind = "marker" -> renderVersion(l.version)
    [] l.kind = "heading" ->
         <<"#", "#", " ", "[">> \o l.text \o <<"]", "(", l.link, ")">>
    [] l.kind = "patches" -> renderItems(l.items)
    [] OTHER -> l.text

\* the text of lines[from..to], joined by newlines
RECURSIVE renderLines(_, _, _)
renderLines(lines, from, to) ==
  IF from > to THEN <<>>
  ELSE renderLine(lines[from])
       \o (IF from < to THEN <<"\n">> ELSE <<>>)
       \o renderLines(lines, from + 1, to)

\* least index in from..Len(lines) whose line satisfies kind \in kinds, or 0
firstOfKind(lines, from, kinds) ==
  IF \E j \in from..Len(lines) : lines[j].kind \in kinds
  THEN CHOOSE j \in from..Len(lines) :
         /\ lines[j].kind \in kinds
         /\ \A k \in from..(j - 1) : lines[k].kind \notin kinds
  ELSE 0

\* least index in from..Len(lines) whose line is not blank, or 0
firstNonBlank(lines, from) ==
  IF \E j \in from..Len(lines) : lines[j].kind # "blank"
  THEN CHOOSE j \in from..Len(lines) :
         /\ lines[j].kind # "blank"
         /\ \A k \in from..(j - 1) : lines[k].kind = "blank"
  ELSE 0

(***************************************************************************)
(* Operations on a PatchMap: obj[key], obj[key] = value (an existing key   *)
(* keeps its place in the insertion order) and delete obj[key].            *)
(***************************************************************************)
has(pm, v) == \E i \in 1..Len(pm) : pm[i].version = v

get(pm, v) == pm[CHOOSE i \in 1..Len(pm) : pm[i].version = v]

put(pm, v, description, detailLink) ==
  LET e == [version |-> v, description |-> description, detailLink |-> detailLink]
  IN IF has(pm, v)
     THEN [i \in 1..Len(pm) |-> IF pm[i].version = v THEN e ELSE pm[i]]
     ELSE Append(pm, e)

\* allPatches[version]?.detailLink
linkOf(pm, v) == IF has(pm, v) THEN get(pm, v).detailLink ELSE Undefined

(***************************************************************************)
(* extractDetailLink and extractIndividualPatches.                         *)
(***************************************************************************)
\* /##\s*\[([^\]]+)\]\(([^)]+)\)/ : the link of the first heading
extractDetailLink(content) ==
  LET h == firstOfKind(content, 1, { "heading" })
  IN IF h = 0 THEN Undefined ELSE Some(content[h].link)

\* the (version, desc) pairs the inline pattern captures: every item of
\* every patches line, the desc running up to the next " - version", the
\* end of the line or the end of the content
RECURSIVE inlineMatches(_)
inlineMatches(content) ==
  IF content = <<>> THEN <<>>
  ELSE (IF Head(content).kind = "patches" THEN Head(content).items ELSE <<>>)
       \o inlineMatches(Tail(content))

RECURSIVE collectPatches(_, _)
collectPatches(matches, patches) ==
  IF matches = <<>> THEN patches
  ELSE LET version == Head(matches).version
           cleanDesc == cleanDescription(Head(matches).text)
       IN IF ~startsWithZeroDot(version)
          THEN collectPatches(Tail(matches), patches)
          ELSE IF cleanDesc # "" /\ Len(cleanDesc) > 10
          THEN collectPatches(Tail(matches),
                              put(patches, version, cleanDesc, Undefined))
          ELSE collectPatches(Tail(matches), patches)

extractIndividualPatches(content) == collectPatches(inlineMatches(content), <<>>)

(***************************************************************************)
(* updateChangelog, lines 250-355: from the markdown to the changelog.     *)
(***************************************************************************)
\* markdownContent.match(/(?:^|\n)(\d+\.\d+\.x)[\s\S]*?(?=\n\d+\.\d+\.x|\n\d{3,4}|\Z)/g):
\* from each marker line up to the next marker line, number line or Z; a
\* marker followed by none of these starts no section
RECURSIVE sectionsFrom(_, _)
sectionsFrom(md, i) ==
  IF i > Len(md) THEN <<>>
  ELSE LET j == firstOfKind(md, i + 1, { "marker", "number", "zline" })
       IN IF md[i].kind = "marker" /\ j # 0
          THEN <<SubSeq(md, i, j - 1)>> \o sectionsFrom(md, j)
          ELSE sectionsFrom(md, i + 1)

majorVersionSections(md) == sectionsFrom(md, 1)

\* section.match(/##\s*\[[^\]]+\]\([^)]+\)\s*\n\n([\s\S]*?)(?=\n\n|$)/)[1]:
\* the paragraph after the first heading that is followed by a blank line;
\* <<>> when there is no match or the capture is empty
descMatch(section) ==
  LET hs == { h \in 1..Len(section) :
                /\ section[h].kind = "heading"
                /\ h + 1 <= Len(section)
                /\ section[h + 1].kind = "blank" }
  IN IF hs = {} THEN <<>>
     ELSE LET h == CHOOSE k \in hs : \A j \in hs : k <= j
              p == firstNonBlank(section, h + 1)
              b == IF p = 0 THEN 0 ELSE firstOfKind(section, p, { "blank" })
              q == IF b = 0 THEN Len(section) ELSE b - 1
          IN IF p = 0 THEN <<>> ELSE renderLines(section, p, q)

\* for (const [patchVersion, patchData] of Object.entries(sectionPatches))
RECURSIVE addSectionPatches(_, _, _)
addSectionPatches(allPatches, sectionPatches, detailLink) ==
  IF sectionPatches = <<>> THEN allPatches
  ELSE LET e == Head(sectionPatches)
           next == IF ~has(allPatches, e.version)
                   THEN put(allPatches, e.version, e.description,
                            IF detailLink # Undefined /\ e.detailLink = Undefined
                            THEN detailLink ELSE e.detailLink)
                   ELSE allPatches
       IN addSectionPatches(next, Tail(sectionPatches), detailLink)

\* the body of for (const section of majorVersionSections); the section
\* starts with its marker, so versionMatch[1] is the marker's version
processSection(allPatches, section) ==
  LET version == section[1].version
      detailLink == extractDetailLink(section)
      raw == descMatch(section)
      desc == cleanDescription(raw)
      withMajor == IF raw # <<>> /\ desc # "" /\ Len(desc) > 10
                   THEN put(allPatches, version, desc, detailLink)
                   ELSE allPatches
  IN addSectionPatches(withMajor, extractIndividualPatches(section), detailLink)

RECURSIVE processSections(_, _)
processSections(allPatches, sections) ==
  IF sections = <<>> THEN allPatches
  ELSE processSections(processSection(allPatches, Head(sections)), Tail(sections))

\* for (const [version, data] of Object.entries(individualPatches))
RECURSIVE mergeIndividual(_, _)
mergeIndividual(allPatches, individualPatches) ==
  IF individualPatches = <<>> THEN allPatches
  ELSE LET e == Head(individualPatches)
           next == IF ~has(allPatches, e.version)
                   THEN put(allPatches, e.version, e.description, e.detailLink)
                   ELSE IF get(allPatches, e.version).detailLink = Undefined
                           /\ e.detailLink # Undefined
                   THEN put(allPatches, e.version,
                            get(allPatches, e.version).description, e.detailLink)
                   ELSE allPatches
       IN mergeIndividual(next, Tail(individualPatches))

\* the (version, desc) pairs of patchPattern: a line that starts with a
\* version and holds no further digit, i.e. a patches line of one item
RECURSIVE lineMatches(_)
lineMatches(md) ==
  IF md = <<>> THEN <<>>
  ELSE (IF Head(md).kind = "patches" /\ Len(Head(md).items) = 1
        THEN Head(md).items ELSE <<>>)
       \o lineMatches(Tail(md))

\* while ((patchMatch = patchPattern.exec(markdownContent)) !== null)
RECURSIVE mergeLines(_, _)
mergeLines(allPatches, matches) ==
  IF matches = <<>> THEN allPatches
  ELSE LET version == Head(matches).version
           cleanDesc == cleanDescription(Head(matches).text)
           next == IF /\ startsWithZeroDot(version)
                      /\ cleanDesc # "" /\ Len(cleanDesc) > 10
                      /\ \/ ~has(allPatches, version)
                         \/ Len(cleanDesc) > Len(get(allPatches, version).description)
                   THEN put(allPatches, version, cleanDesc, linkOf(allPatches, version))
                   ELSE allPatches
       IN mergeLines(next, Tail(matches))

\* /(?:###\s*Patches|\*\*Patches\*\*)(.*?)(?=###|\*\*[A-Z]|\Z)/gs: the lines
\* after a Patches heading up to the next "###" or Z; a Patches heading
\* followed by none of these gives no match
RECURSIVE patchesSectionsFrom(_, _)
patchesSectionsFrom(md, i) ==
  IF i > Len(md) THEN <<>>
  ELSE LET j == firstOfKind(md, i + 1, { "patchesHeading", "subheading", "zline" })
       IN IF md[i].kind = "patchesHeading" /\ j # 0
          THEN <<SubSeq(md, i + 1, j - 1)>> \o patchesSectionsFrom(md, j)
          ELSE patchesSectionsFrom(md, i + 1)

\* for (const [version, data] of Object.entries(sectionPatches))
RECURSIVE mergeListed(_, _)
mergeListed(allPatches, sectionPatches) ==
  IF sectionPatches = <<>> THEN allPatches
  ELSE LET e == Head(sectionPatches)
           existingLink == linkOf(allPatches, e.version)
           next == IF \/ ~has(allPatches, e.version)
                      \/ Len(e.description) > Len(get(allPatches, e.version).description)
                   THEN put(allPatches, e.version, e.description,
                            IF existingLink # Undefined THEN existingLink
                            ELSE e.detailLink)
                   ELSE allPatches
       IN mergeListed(next, Tail(sectionPatches))

RECURSIVE mergePatchesSections(_, _)
mergePatchesSections(allPatches, sections) ==
  IF sections = <<>> THEN allPatches
  ELSE mergePatchesSections(
         mergeListed(allPatches, extractIndividualPatches(Head(sections))),
         Tail(sections))

\* for (const version of Object.keys(allPatches)) ... delete allPatches[version]
invalidDescription(e) ==
  \/ e.description \in { "](", "]", ")", "](http", ":", "" }
  \/ Len(e.description) < 10

validDescription(e) == ~invalidDescription(e)

removeInvalid(allPatches) == SelectSeq(allPatches, validDescription)

extractAll(md) ==
  LET a1 == processSections(<<>>, majorVersionSections(md))
      a2 == mergeIndividual(a1, extractIndividualPatches(md))
      a3 == mergeLines(a2, lineMatches(md))
      a4 == mergePatchesSections(a3, patchesSectionsFrom(md, 1))
  IN removeInvalid(a4)

\* variant: every inline candidate becomes a record, whatever its length
changelogOfUnchecked(md) ==
  sort([i \in 1..Len(inlineMatches(md)) |->
          [version |-> inlineMatches(md)[i].version,
           description |-> cleanDescription(inlineMatches(md)[i].text),
           detailLink |-> Undefined]],
       "newestFirst")

\* const changelog = consolidateVersions(allPatches)
changelogOf(md) == consolidateVersions(extractAll(md))

(***************************************************************************)
(* Persistence.  The snapshot file is absent, or holds text that is not    *)
(* JSON (garbage), or JSON that is not an array (nonarray), or the JSON    *)
(* array of objects in items.  A JSON object is a record whose domain is   *)
(* its set of properties.                                                  *)
(***************************************************************************)
File(kind, items) == [kind |-> kind, items |-> items]

\* JSON.stringify(changelog, null, 2): a property whose value is undefined
\* is left out
\* variant: only version and description are written
stringifyEntryWithoutLink(e) ==
  [version |-> e.version, description |-> e.description]

stringifyEntry(e) ==
  IF e.detailLink = Undefined
  THEN [version |-> e.version, description |-> e.description]
  ELSE [version |-> e.version, description |-> e.description,
        detailLink |-> e.detailLink[1]]

stringify(changelog) ==
  [i \in 1..Len(changelog) |-> stringifyEntry(changelog[i])]

\* JSON.parse(data) as ChangelogEntry[]: a property that is not there reads
\* as undefined
parseEntry(o) ==
  [version |-> o.version, description |-> o.description,
   detailLink |-> IF "detailLink" \in DOMAIN o THEN Some(o.detailLink)
                  ELSE Undefined]

parse(items) == [i \in 1..Len(items) |-> parseEntry(items[i])]

\* ensureDataDir throws when the directory is missing and cannot be made
ensureDataDirThrows(dir, mkdirOk) == ~dir /\ ~mkdirOk

Returned(isArray, items) ==
  [status |-> "returned", isArray |-> isArray, items |-> items]

Threw == [status |-> "threw", isArray |-> FALSE, items |-> <<>>]

\* loadChangelog: what the call returns, or that it throws
loadChangelog(dir, mkdirOk, f) ==
  IF ensureDataDirThrows(dir, mkdirOk) THEN Threw
  ELSE IF f.kind = "absent" THEN Returned(TRUE, <<>>)
  ELSE IF f.kind = "garbage" THEN Returned(TRUE, <<>>)
  ELSE IF f.kind = "nonarray" THEN Returned(FALSE, <<>>)
  ELSE Returned(TRUE, parse(f.items))

\* index of the first entry whose version does not include "x", or 0
firstSpecific(changelog) ==
  IF \E i \in 1..Len(changelog) : ~includes(changelog[i].version, X)
  THEN CHOOSE i \in 1..Len(changelog) :
         /\ ~includes(changelog[i].version, X)
         /\ \A j \in 1..(i - 1) : includes(changelog[j].version, X)
  ELSE 0

\* getLatestVersion, given what its loadChangelog call gave: "threw",
\* "null", or "entry" with the entry returned.  A value that is not an
\* array has no length 0 and cannot be iterated: the for-of throws.
getLatestVersion(changelog) ==
  IF changelog.status = "threw" \/ ~changelog.isArray
  THEN [status |-> "threw", entry |-> <<>>]
  ELSE IF Len(changelog.items) = 0 THEN [status |-> "null", entry |-> <<>>]
  ELSE IF firstSpecific(changelog.items) # 0
  THEN [status |-> "entry",
        entry |-> <<changelog.items[firstSpecific(changelog.items)]>>]
  ELSE [status |-> "entry", entry |-> <<changelog.items[1]>>]

(***************************************************************************)
(* State.                                                                  *)
(*   phase, patchesDict, consolidated, reconsolidated                      *)
(*       input and results of consolidateVersions (SpecConsolidate)        *)
(*   dirExists   DATA_DIR exists                                           *)
(*   file        content of CHANGELOG_FILE                                 *)
(*   pc          position of each updateChangelog call                     *)
(*   fetches     number of scrapeUrl requests each call has issued         *)
(*   response    what the call's scrapeUrl resolved with                   *)
(*   returned    <<changelog>> once the call has returned, <<>> before     *)
(*   written     the changelog passed to the last writeFileSync that       *)
(*               completed, while the file still holds it                  *)
(*   lastRead    the most recent loadChangelog / getLatestVersion call     *)
(*               and its results, and whether a scrapeUrl request was      *)
(*               outstanding when it ran                                   *)
(*   saved       for each call how its attempt to create the directory or  *)
(*               to write the file ended, and which calls were suspended   *)
(*               at that moment                                            *)
(*   fragment, cleaned                                                     *)
(*               argument and result of cleanDescription (SpecClean)       *)
(*   markdownContent                                                       *)
(*               the text given to the extraction (SpecExtract)            *)
(***************************************************************************)
VARIABLES phase, patchesDict, consolidated, reconsolidated,
          dirExists, file, pc, fetches, response, returned, written, lastRead,
          saved, fragment, cleaned, markdownContent,
          isLoading, success, entriesCount, viewPc

consolidateVars == <<phase, patchesDict, consolidated, reconsolidated>>
systemVars == <<dirExists, file, pc, fetches, response, returned, written, lastRead,
                saved>>
pipelineVars == <<fragment, cleaned, markdownContent>>
viewVars == <<isLoading, success, entriesCount, viewPc>>
vars == <<phase, patchesDict, consolidated, reconsolidated,
          dirExists, file, pc, fetches, response, returned, written, lastRead,
          saved, fragment, cleaned, markdownContent,
          isLoading, success, entriesCount, viewPc>>

Calls == 1..MaxCalls

NoResponse == [kind |-> "none", text |-> 0]
NotWritten == [ok |-> FALSE, changelog |-> <<>>, by |-> 0]

\* how a call's mkdirSync or writeFileSync ended: nodir (mkdirSync threw),
\* ok, denied or partial (see WriteOutcomes), while the calls in during
\* were suspended
Attempt(outcome, during) == [outcome |-> outcome, during |-> during]
NotSaved == Attempt("none", {})
NoRead == [op |-> "none", changelog |-> Returned(TRUE, <<>>),
           result |-> [status |-> "none", entry |-> <<>>], fetching |-> FALSE]

PipelineIdle ==
  /\ fragment = <<>>
  /\ cleaned = ""
  /\ markdownContent = <<>>

\* the state of the Update Changelog view as useState creates it; no
\* handler of the view has called updateChangelog
ViewIdle ==
  /\ isLoading = TRUE
  /\ success = FALSE
  /\ entriesCount = 0
  /\ viewPc = [u \in Calls |-> "idle"]

SystemIdle ==
  /\ dirExists = FALSE
  /\ file = File("absent", <<>>)
  /\ pc = [u \in Calls |-> "idle"]
  /\ fetches = [u \in Calls |-> 0]
  /\ response = [u \in Calls |-> NoResponse]
  /\ returned = [u \in Calls |-> <<>>]
  /\ written = NotWritten
  /\ lastRead = NoRead
  /\ saved = [u \in Calls |-> NotSaved]

(***************************************************************************)
(* SpecConsolidate: consolidateVersions applied to every PatchMap of at    *)
(* most MaxEntries entries over a small universe, then applied again to    *)
(* its own output read back as a PatchMap.                                 *)
(***************************************************************************)
Versions ==
  { Ver(0, 48, 0), Ver(0, 48, 1), Ver(0, 48, 2), Ver(0, 48, X),
    Ver(0, 47, 9), Ver(0, 48, 999), Ver(0, 48, 1000), Ver(1, 2, X) }

Descriptions == { "Bug fixes", "Fixed a crash.", "Faster indexing" }

PlainEntries ==
  { [version |-> v, description |-> d, detailLink |-> Undefined] :
      v \in Versions, d \in Descriptions }

distinctKeys(pm) ==
  \A i, j \in 1..Len(pm) : pm[i].version = pm[j].version => i = j

PatchMapsOver(entrySet) ==
  { pm \in UNION { [1..n -> entrySet] : n \in 0..MaxEntries } : distinctKeys(pm) }

asPatchMap(records) ==
  [i \in 1..Len(records) |->
     [version |-> records[i].version,
      description |-> records[i].description,
      detailLink |-> records[i].detailLink]]

InitConsolidate ==
  /\ phase = "input"
  /\ patchesDict \in PatchMapsOver(PlainEntries)
  /\ consolidated = <<>>
  /\ reconsolidated = <<>>
  /\ SystemIdle
  /\ ViewIdle
  /\ PipelineIdle

Consolidate ==
  /\ phase = "input"
  /\ phase' = "once"
  /\ consolidated' = consolidateVersions(patchesDict)
  /\ UNCHANGED <<patchesDict, reconsolidated>>
  /\ UNCHANGED systemVars
  /\ UNCHANGED viewVars
  /\ UNCHANGED pipelineVars

Reconsolidate ==
  /\ phase = "once"
  /\ phase' = "twice"
  /\ reconsolidated' = consolidateVersions(asPatchMap(consolidated))
  /\ UNCHANGED <<patchesDict, consolidated>>
  /\ UNCHANGED systemVars
  /\ UNCHANGED viewVars
  /\ UNCHANGED pipelineVars

NextConsolidate == Consolidate \/ Reconsolidate

SpecConsolidate == InitConsolidate /\ [][NextConsolidate]_vars

(***************************************************************************)
(* SpecLinked: the same two steps over PatchMaps whose entries may carry   *)
(* detail links.                                                           *)
(***************************************************************************)
LinkedVersions ==
  { Ver(0, 48, 0), Ver(0, 48, 1), Ver(0, 48, 2), Ver(0, 48, X), Ver(0, 47, 9) }

LinkedEntries ==
  { [version |-> v, description |-> d, detailLink |-> l] :
      v \in LinkedVersions,
      d \in { "Fixed a crash.", "Faster indexing" },
      l \in { Undefined, Some("https://cursor.com/a"), Some("https://cursor.com/b") } }

InitLinked ==
  /\ phase = "input"
  /\ patchesDict \in PatchMapsOver(LinkedEntries)
  /\ consolidated = <<>>
  /\ reconsolidated = <<>>
  /\ SystemIdle
  /\ ViewIdle
  /\ PipelineIdle

SpecLinked == InitLinked /\ [][NextConsolidate]_vars

(***************************************************************************)
(* Spec: the extension's operations on the snapshot.  Up to MaxCalls       *)
(* updateChangelog calls run concurrently, each suspended once, at its     *)
(* await of scrapeUrl; loadChangelog and getLatestVersion run at any time. *)
(* The environment chooses what scrapeUrl resolves with, whether mkdirSync *)
(* succeeds, and whether writeFileSync completes, fails before touching    *)
(* the file (denied) or fails after truncating it (partial).               *)
(***************************************************************************)
CrashFixed == <<"Fixed a crash.">>
FasterIndexing == <<"Faster indexing">>

\* 0.48.x / ## [Chat tabs](https://cursor.com/a) / Fixed a crash. /
\* 0.48.1: Fixed a crash. / 1000 users / 0.47.9: Faster indexing
FeedShared ==
  << MarkerLine(Ver(0, 48, X)), BlankLine,
     HeadingLine("Chat tabs", "https://cursor.com/a"), BlankLine,
     ParaLine(CrashFixed), BlankLine,
     PatchesLine(<<Item(Ver(0, 48, 1), CrashFixed)>>),
     NumberLine,
     PatchesLine(<<Item(Ver(0, 47, 9), FasterIndexing)>>) >>

\* 0.48.x / ## [Chat tabs](https://cursor.com/a) / Chat tabs and more /
\* 0.48.2: Fixed a crash. / Zed integration
FeedSeries ==
  << MarkerLine(Ver(0, 48, X)), BlankLine,
     HeadingLine("Chat tabs", "https://cursor.com/a"), BlankLine,
     ParaLine(<<"Chat tabs and more">>), BlankLine,
     PatchesLine(<<Item(Ver(0, 48, 2), CrashFixed)>>),
     ZLine >>

\* 0.46.5: Faster indexing / 0.47.1: Fixed a crash. - 0.47.2: Fixed a crash. /
\* 0.45.1: Bug fixes / 0.45.2: Bug fixes.
FeedRuns ==
  << PatchesLine(<<Item(Ver(0, 46, 5), FasterIndexing)>>),
     PatchesLine(<<Item(Ver(0, 47, 1), CrashFixed), Item(Ver(0, 47, 2), CrashFixed)>>),
     PatchesLine(<<Item(Ver(0, 45, 1), <<"Bug fixes">>)>>),
     PatchesLine(<<Item(Ver(0, 45, 2), <<"Bug fixes.">>)>>) >>

\* Nothing to see here
FeedProse == << ParaLine(<<"Nothing to see here">>) >>

\* 0.49.x / ## [Agents](https://cursor.com/b) / Background agents / 1000 users
FeedWildcard ==
  << MarkerLine(Ver(0, 49, X)), BlankLine,
     HeadingLine("Agents", "https://cursor.com/b"), BlankLine,
     ParaLine(<<"Background agents">>),
     NumberLine >>

\* 0.48.x / ## [Chat tabs](https://cursor.com/a) / Chat tabs and more /
\* 0.48.1: Faster indexing - 0.48.1: Fixed a crash. /
\* 0.48.x / ## [Agents](https://cursor.com/b) / Fixed a crash. / 1000 users
FeedRepeated ==
  << MarkerLine(Ver(0, 48, X)), BlankLine,
     HeadingLine("Chat tabs", "https://cursor.com/a"), BlankLine,
     ParaLine(<<"Chat tabs and more">>), BlankLine,
     PatchesLine(<<Item(Ver(0, 48, 1), FasterIndexing), Item(Ver(0, 48, 1), CrashFixed)>>),
     MarkerLine(Ver(0, 48, X)), BlankLine,
     HeadingLine("Agents", "https://cursor.com/b"), BlankLine,
     ParaLine(CrashFixed),
     NumberLine >>

Feeds ==
  << FeedShared, FeedSeries, FeedRuns, FeedProse, FeedWildcard, FeedRepeated >>

\* scrapeUrl rejects; the response has an error; it has no markdown; its
\* markdown is the empty string
FetchFailures == { "rejected", "error", "nomarkdown", "empty" }

Responses ==
  { [kind |-> k, text |-> 0] : k \in FetchFailures }
    \cup { [kind |-> "text", text |-> t] : t \in 1..Len(Feeds) }

WriteOutcomes == { "ok", "denied", "partial" }

\* the other calls that are suspended at their await of scrapeUrl; it is
\* recorded in SpecUpdates only
awaitingBeside(u) ==
  IF phase = "updates"
  THEN { v \in Calls \ { u } : pc[v] = "awaiting" }
  ELSE {}


Init ==
  /\ phase = "system"
  /\ patchesDict = <<>>
  /\ consolidated = <<>>
  /\ reconsolidated = <<>>
  /\ dirExists \in BOOLEAN
  /\ file \in { File("absent", <<>>), File("garbage", <<>>), File("nonarray", <<>>) }
  /\ file.kind # "absent" => dirExists
  /\ pc = [u \in Calls |-> "idle"]
  /\ fetches = [u \in Calls |-> 0]
  /\ response = [u \in Calls |-> NoResponse]
  /\ returned = [u \in Calls |-> <<>>]
  /\ written = NotWritten
  /\ lastRead = NoRead
  /\ saved = [u \in Calls |-> NotSaved]
  /\ PipelineIdle
  /\ ViewIdle

\* updateChangelog up to its await: ensureDataDir, then the scrapeUrl request
StartUpdate(u) ==
  /\ pc[u] = "idle"
  /\ \E mkdirOk \in BOOLEAN :
       IF ensureDataDirThrows(dirExists, mkdirOk)
       THEN /\ pc' = [pc EXCEPT ![u] = "threw"]
            /\ saved' = [saved EXCEPT ![u] = Attempt("nodir", awaitingBeside(u))]
            /\ UNCHANGED <<dirExists, fetches>>
       ELSE /\ dirExists' = TRUE
            /\ pc' = [pc EXCEPT ![u] = "awaiting"]
            /\ fetches' = [fetches EXCEPT ![u] = @ + 1]
            /\ UNCHANGED saved
  /\ UNCHANGED <<file, response, returned, written, lastRead>>
  /\ UNCHANGED consolidateVars
  /\ UNCHANGED viewVars
  /\ UNCHANGED pipelineVars

\* variant: a failed request is issued again
FetchFailedRetried(u) ==
  /\ pc[u] = "awaiting"
  /\ fetches[u] < 3
  /\ \E k \in FetchFailures : response' = [response EXCEPT ![u] = [kind |-> k, text |-> 0]]
  /\ fetches' = [fetches EXCEPT ![u] = @ + 1]
  /\ UNCHANGED <<dirExists, file, pc, returned, written, lastRead, saved>>
  /\ UNCHANGED consolidateVars
  /\ UNCHANGED viewVars
  /\ UNCHANGED pipelineVars

\* variant: a failed request leaves an empty snapshot behind
FetchFailedClearsSnapshot(u) ==
  /\ pc[u] = "awaiting"
  /\ \E k \in FetchFailures : response' = [response EXCEPT ![u] = [kind |-> k, text |-> 0]]
  /\ pc' = [pc EXCEPT ![u] = "threw"]
  /\ file' = File("array", <<>>)
  /\ written' = [ok |-> TRUE, changelog |-> <<>>, by |-> u]
  /\ UNCHANGED <<dirExists, fetches, returned, lastRead, saved>>
  /\ UNCHANGED consolidateVars
  /\ UNCHANGED viewVars
  /\ UNCHANGED pipelineVars

\* the await ends with a rejection, an error or no markdown: the call throws
FetchFailed(u) ==
  /\ pc[u] = "awaiting"
  /\ \E k \in FetchFailures : response' = [response EXCEPT ![u] = [kind |-> k, text |-> 0]]
  /\ pc' = [pc EXCEPT ![u] = "threw"]
  /\ UNCHANGED <<dirExists, file, fetches, returned, written, lastRead, saved>>
  /\ UNCHANGED consolidateVars
  /\ UNCHANGED viewVars
  /\ UNCHANGED pipelineVars

\* variant: the file is written from the sorted list, the list returned is
\* the one before the sort
ProcessReturnsUnsorted(u) ==
  /\ pc[u] = "awaiting"
  /\ \E t \in 1..Len(Feeds) :
       LET changelog == changelogOf(Feeds[t]) IN
       /\ response' = [response EXCEPT ![u] = [kind |-> "text", text |-> t]]
       /\ file' = File("array", stringify(changelog))
       /\ written' = [ok |-> TRUE, changelog |-> changelog, by |-> u]
       /\ pc' = [pc EXCEPT ![u] = "returned"]
       /\ returned' = [returned EXCEPT ![u] = <<emitted(extractAll(Feeds[t]))>>]
       /\ saved' = [saved EXCEPT ![u] = Attempt("ok", awaitingBeside(u))]
  /\ UNCHANGED <<dirExists, fetches, lastRead>>
  /\ UNCHANGED consolidateVars
  /\ UNCHANGED viewVars
  /\ UNCHANGED pipelineVars

\* variant: the new records are added to the snapshot already stored
ProcessKeepsPrevious(u) ==
  /\ pc[u] = "awaiting"
  /\ \E t \in 1..Len(Feeds) :
       LET changelog == changelogOf(Feeds[t])
           previous == IF file.kind = "array" THEN file.items ELSE <<>>
       IN
       /\ response' = [response EXCEPT ![u] = [kind |-> "text", text |-> t]]
       /\ saved' = [saved EXCEPT ![u] = Attempt("ok", awaitingBeside(u))]
       /\ file' = File("array", stringify(changelog) \o previous)
       /\ written' = [ok |-> TRUE, changelog |-> changelog, by |-> u]
       /\ pc' = [pc EXCEPT ![u] = "returned"]
       /\ returned' = [returned EXCEPT ![u] = <<changelog>>]
  /\ UNCHANGED <<dirExists, fetches, lastRead>>
  /\ UNCHANGED consolidateVars
  /\ UNCHANGED viewVars
  /\ UNCHANGED pipelineVars


\* variant: an error of writeFileSync is caught and the changelog returned
ProcessSwallowsWriteError(u) ==
  /\ pc[u] = "awaiting"
  /\ \E t \in 1..Len(Feeds), w \in WriteOutcomes :
       LET changelog == changelogOf(Feeds[t]) IN
       /\ response' = [response EXCEPT ![u] = [kind |-> "text", text |-> t]]
       /\ saved' = [saved EXCEPT ![u] = Attempt(w, awaitingBeside(u))]
       /\ pc' = [pc EXCEPT ![u] = "returned"]
       /\ returned' = [returned EXCEPT ![u] = <<changelog>>]
       /\ CASE w = "ok" ->
                 /\ file' = File("array", stringify(changelog))
                 /\ written' = [ok |-> TRUE, changelog |-> changelog, by |-> u]
            [] w = "denied" ->
                 /\ UNCHANGED <<file, written>>
            [] w = "partial" ->
                 /\ file' = File("garbage", <<>>)
                 /\ written' = NotWritten
  /\ UNCHANGED <<dirExists, fetches, lastRead>>
  /\ UNCHANGED consolidateVars
  /\ UNCHANGED viewVars
  /\ UNCHANGED pipelineVars


\* variant: a call does not write over a file that another call has saved
ProcessFirstSaveWins(u) ==
  /\ pc[u] = "awaiting"
  /\ \E t \in 1..Len(Feeds) :
       LET changelog == changelogOf(Feeds[t]) IN
       /\ response' = [response EXCEPT ![u] = [kind |-> "text", text |-> t]]
       /\ saved' = [saved EXCEPT ![u] = Attempt("ok", awaitingBeside(u))]
       /\ IF written.ok
          THEN /\ file' = file
               /\ written' = [written EXCEPT !.by = u]
          ELSE /\ file' = File("array", stringify(changelog))
               /\ written' = [ok |-> TRUE, changelog |-> changelog, by |-> u]
       /\ pc' = [pc EXCEPT ![u] = "returned"]
       /\ returned' = [returned EXCEPT ![u] = <<changelog>>]
  /\ UNCHANGED <<dirExists, fetches, lastRead>>
  /\ UNCHANGED consolidateVars
  /\ UNCHANGED viewVars
  /\ UNCHANGED pipelineVars


\* variant: the call is suspended once more between the response and the
\* processing
ProcessYieldsAfterFetch(u) ==
  /\ pc[u] = "awaiting"
  /\ \E t \in 1..Len(Feeds) :
       response' = [response EXCEPT ![u] = [kind |-> "text", text |-> t]]
  /\ pc' = [pc EXCEPT ![u] = "resolved"]
  /\ UNCHANGED <<dirExists, file, fetches, returned, written, lastRead, saved>>
  /\ UNCHANGED consolidateVars
  /\ UNCHANGED viewVars
  /\ UNCHANGED pipelineVars


\* variant: a changelog without records is treated as a failure
ProcessFailsOnEmpty(u) ==
  /\ pc[u] = "awaiting"
  /\ \E t \in 1..Len(Feeds) :
       LET changelog == changelogOf(Feeds[t]) IN
       /\ response' = [response EXCEPT ![u] = [kind |-> "text", text |-> t]]
       /\ IF changelog = <<>>
          THEN /\ pc' = [pc EXCEPT ![u] = "threw"]
               /\ UNCHANGED <<file, written, returned, saved>>
          ELSE /\ file' = File("array", stringify(changelog))
               /\ written' = [ok |-> TRUE, changelog |-> changelog, by |-> u]
               /\ saved' = [saved EXCEPT ![u] = Attempt("ok", awaitingBeside(u))]
               /\ pc' = [pc EXCEPT ![u] = "returned"]
               /\ returned' = [returned EXCEPT ![u] = <<changelog>>]
  /\ UNCHANGED <<dirExists, fetches, lastRead>>
  /\ UNCHANGED consolidateVars
  /\ UNCHANGED viewVars
  /\ UNCHANGED pipelineVars


\* a suspended call resumes when its own promise settles: updateChangelog
\* takes no lock and waits for nothing else
resumes(u) == pc[u] = "awaiting"

\* the await ends with markdown: extraction, consolidation, writeFileSync
\* and the return run without interruption
Process(u) ==
  /\ resumes(u)
  /\ \E t \in 1..Len(Feeds), w \in WriteOutcomes :
       LET changelog == changelogOf(Feeds[t]) IN
       /\ response' = [response EXCEPT ![u] = [kind |-> "text", text |-> t]]
       /\ saved' = [saved EXCEPT ![u] = Attempt(w, awaitingBeside(u))]
       /\ CASE w = "ok" ->
                 /\ file' = File("array", stringify(changelog))
                 /\ written' = [ok |-> TRUE, changelog |-> changelog, by |-> u]
                 /\ pc' = [pc EXCEPT ![u] = "returned"]
                 /\ returned' = [returned EXCEPT ![u] = <<changelog>>]
            [] w = "denied" ->
                 /\ pc' = [pc EXCEPT ![u] = "threw"]
                 /\ UNCHANGED <<file, written, returned>>
            [] w = "partial" ->
                 /\ file' = File("garbage", <<>>)
                 /\ written' = NotWritten
                 /\ pc' = [pc EXCEPT ![u] = "threw"]
                 /\ UNCHANGED returned
  /\ UNCHANGED <<dirExists, fetches, lastRead>>
  /\ UNCHANGED consolidateVars
  /\ UNCHANGED viewVars
  /\ UNCHANGED pipelineVars

\* some updateChangelog call is suspended at its await of scrapeUrl
fetchOutstanding == \E u \in Calls : pc[u] = "awaiting"

\* a call of loadChangelog; ensureDataDir makes the directory when it can
LoadChangelog ==
  /\ \E mkdirOk \in BOOLEAN :
       /\ lastRead' = [op |-> "load",
                       changelog |-> loadChangelog(dirExists, mkdirOk, file),
                       result |-> [status |-> "none", entry |-> <<>>],
                       fetching |-> fetchOutstanding]
       /\ dirExists' = (dirExists \/ mkdirOk)
  /\ UNCHANGED <<file, pc, fetches, response, returned, written, saved>>
  /\ UNCHANGED consolidateVars
  /\ UNCHANGED viewVars
  /\ UNCHANGED pipelineVars

\* a call of getLatestVersion
GetLatestVersion ==
  /\ \E mkdirOk \in BOOLEAN :
       LET changelog == loadChangelog(dirExists, mkdirOk, file) IN
       /\ lastRead' = [op |-> "latest",
                       changelog |-> changelog,
                       result |-> getLatestVersion(changelog),
                       fetching |-> fetchOutstanding]
       /\ dirExists' = (dirExists \/ mkdirOk)
  /\ UNCHANGED <<file, pc, fetches, response, returned, written, saved>>
  /\ UNCHANGED consolidateVars
  /\ UNCHANGED viewVars
  /\ UNCHANGED pipelineVars

Next ==
  \/ \E u \in Calls : StartUpdate(u)
  \/ \E u \in Calls : FetchFailed(u)
  \/ \E u \in Calls : Process(u)
  \/ LoadChangelog
  \/ GetLatestVersion

Spec == Init /\ [][Next]_vars

(***************************************************************************)
(* SpecUpdates: the updateChangelog calls alone, each save recording which *)
(* other calls were suspended when it was made.                            *)
(***************************************************************************)
InitUpdates ==
  /\ phase = "updates"
  /\ patchesDict = <<>>
  /\ consolidated = <<>>
  /\ reconsolidated = <<>>
  /\ dirExists \in BOOLEAN
  /\ file \in { File("absent", <<>>), File("garbage", <<>>), File("nonarray", <<>>) }
  /\ file.kind # "absent" => dirExists
  /\ pc = [u \in Calls |-> "idle"]
  /\ fetches = [u \in Calls |-> 0]
  /\ response = [u \in Calls |-> NoResponse]
  /\ returned = [u \in Calls |-> <<>>]
  /\ written = NotWritten
  /\ lastRead = NoRead
  /\ saved = [u \in Calls |-> NotSaved]
  /\ PipelineIdle
  /\ ViewIdle

NextUpdates ==
  \/ \E u \in Calls : StartUpdate(u)
  \/ \E u \in Calls : FetchFailed(u)
  \/ \E u \in Calls : Process(u)

SpecUpdates == InitUpdates /\ [][NextUpdates]_vars

(***************************************************************************)
(* SpecClean: cleanDescription applied to raw description fragments.  A    *)
(* fragment is the text of the spec's three cleaning examples, or up to    *)
(* MaxParts pieces of text put one after the other.                        *)
(***************************************************************************)
RawParts ==
  { <<" ">>, <<"\n">>, <<"-", " ">>, <<":">>, <<")">>, <<"]">>, <<"[">>,
    <<"[", "See details", "]", "(", "https://x.com/y", ")">>,
    <<"https://x.com/y", " ">>, <<"https://x.com/y">>,
    <<"of", " ">>, <<"until", " ">>,
    <<"#", "#", " ">>, <<"12", ")", ":", " ">>, <<"Nightly", " ">>,
    <<"Fixed a crash.">>, <<"the editor crashing">> }

\* " - Fixed a crash. ", "[See details](https://x.com/y)" and
\* "of the editor crashing"
DashExample == <<" ", "-", " ", "Fixed a crash.", " ">>
LinkExample == <<"[", "See details", "]", "(", "https://x.com/y", ")">>
TruncatedExample == <<"of", " ", "the editor crashing">>

RECURSIVE concat(_)
concat(parts) == IF parts = <<>> THEN <<>> ELSE Head(parts) \o concat(Tail(parts))

RawFragments ==
  { concat(parts) : parts \in UNION { [1..n -> RawParts] : n \in 0..MaxParts } }
    \cup { DashExample, LinkExample, TruncatedExample }

InitClean ==
  /\ phase = "raw"
  /\ fragment \in RawFragments
  /\ cleaned = ""
  /\ markdownContent = <<>>
  /\ patchesDict = <<>>
  /\ consolidated = <<>>
  /\ reconsolidated = <<>>
  /\ SystemIdle
  /\ ViewIdle

\* const cleanDesc = cleanDescription(desc)
Clean ==
  /\ phase = "raw"
  /\ phase' = "cleaned"
  /\ cleaned' = cleanDescription(fragment)
  /\ UNCHANGED <<fragment, markdownContent>>
  /\ UNCHANGED <<patchesDict, consolidated, reconsolidated>>
  /\ UNCHANGED systemVars
  /\ UNCHANGED viewVars

NextClean == Clean

SpecClean == InitClean /\ [][NextClean]_vars

(***************************************************************************)
(* SpecExtract: the extraction and consolidation of updateChangelog        *)
(* (lines 250-355) applied to texts made of up to MaxBlocks blocks, a      *)
(* block being a few lines of the changelog page.                          *)
(***************************************************************************)
\* 0.48.x / ## [Chat tabs](https://cursor.com/a) / Chat tabs and more /
\* 0.48.1: Fixed a crash.
SectionLinked48 ==
  << MarkerLine(Ver(0, 48, X)), BlankLine,
     HeadingLine("Chat tabs", "https://cursor.com/a"), BlankLine,
     ParaLine(<<"Chat tabs and more">>), BlankLine,
     PatchesLine(<<Item(Ver(0, 48, 1), CrashFixed)>>) >>

\* 0.47.x / 0.47.9: Faster indexing
SectionPlain47 ==
  << MarkerLine(Ver(0, 47, X)), BlankLine,
     PatchesLine(<<Item(Ver(0, 47, 9), FasterIndexing)>>) >>

\* 0.47.x / ## [Agents](https://cursor.com/b) / Fixed a crash. /
\* 0.47.9: Faster indexing
SectionLinked47 ==
  << MarkerLine(Ver(0, 47, X)), BlankLine,
     HeadingLine("Agents", "https://cursor.com/b"), BlankLine,
     ParaLine(CrashFixed), BlankLine,
     PatchesLine(<<Item(Ver(0, 47, 9), FasterIndexing)>>) >>

\* 1.2.x / ## [Agents](https://cursor.com/b) / Background agents /
\* 1.2.3: Fixed a crash.
SectionMajorOne ==
  << MarkerLine(Ver(1, 2, X)), BlankLine,
     HeadingLine("Agents", "https://cursor.com/b"), BlankLine,
     ParaLine(<<"Background agents">>), BlankLine,
     PatchesLine(<<Item(Ver(1, 2, 3), CrashFixed)>>) >>

Blocks ==
  { SectionLinked48, SectionPlain47, SectionLinked47, SectionMajorOne,
    << PatchesLine(<<Item(Ver(0, 46, 5), FasterIndexing)>>) >>,
    << PatchesLine(<<Item(Ver(0, 45, 2), <<"Bug fixes.">>)>>) >>,
    << PatchesLine(<<Item(Ver(1, 2, 3), FasterIndexing),
                     Item(Ver(0, 46, 6), FasterIndexing)>>) >>,
    << NumberLine >>, << ZLine >>, << PatchesHeading >>, << SubHeading >> }

Texts ==
  { concat(blocks) : blocks \in UNION { [1..n -> Blocks] : n \in 0..MaxBlocks } }

InitExtract ==
  /\ phase = "text"
  /\ markdownContent \in Texts
  /\ fragment = <<>>
  /\ cleaned = ""
  /\ patchesDict = <<>>
  /\ consolidated = <<>>
  /\ reconsolidated = <<>>
  /\ SystemIdle
  /\ ViewIdle

\* lines 250-355: allPatches as it is given to consolidateVersions, and the
\* changelog that comes back
Extract ==
  /\ phase = "text"
  /\ phase' = "extracted"
  /\ patchesDict' = extractAll(markdownContent)
  /\ consolidated' = consolidateVersions(extractAll(markdownContent))
  /\ UNCHANGED reconsolidated
  /\ UNCHANGED pipelineVars
  /\ UNCHANGED systemVars
  /\ UNCHANGED viewVars

NextExtract == Extract

SpecExtract == InitExtract /\ [][NextExtract]_vars

(***************************************************************************)
(* SpecView: the Update Changelog view (update-changelog.tsx).  Call 1 is  *)
(* the update started by the effect on mount, every later call is started  *)
(* by a Retry Update action.  viewPc[u] is the position of the handler     *)
(* that made call u: "idle" before it runs, "called" from its call of      *)
(* updateChangelog until the code after the await has run, "successToast"  *)
(* or "failureToast" while it awaits showToast, "done" or "failed" after   *)
(* its finally block.  The code after an await runs before any other       *)
(* event is handled.                                                       *)
(***************************************************************************)
InitView ==
  /\ phase = "view"
  /\ patchesDict = <<>>
  /\ consolidated = <<>>
  /\ reconsolidated = <<>>
  /\ dirExists \in BOOLEAN
  /\ file = File("absent", <<>>)
  /\ pc = [u \in Calls |-> "idle"]
  /\ fetches = [u \in Calls |-> 0]
  /\ response = [u \in Calls |-> NoResponse]
  /\ returned = [u \in Calls |-> <<>>]
  /\ written = NotWritten
  /\ lastRead = NoRead
  /\ saved = [u \in Calls |-> NotSaved]
  /\ PipelineIdle
  /\ ViewIdle

\* the handler of call u has reached its call of updateChangelog
entersCall(u) == viewPc[u] = "called" /\ pc[u] = "idle"

\* updateChangelog has returned or thrown and the code after the await of
\* call u has not run yet
settled(u) == viewPc[u] = "called" /\ pc[u] \in { "returned", "threw" }

\* synchronous code, or code after an await, is still to run
running == \E u \in Calls : entersCall(u) \/ settled(u)

\* the updateChangelog call of handler u is in flight
inFlight(u) == viewPc[u] = "called" /\ pc[u] \in { "idle", "awaiting" }

\* the most recently started update
latestUpdate == CHOOSE u \in Calls :
                  /\ viewPc[u] # "idle"
                  /\ \A v \in Calls : viewPc[v] # "idle" => v <= u

\* useEffect: fetchChangelog() is called once, after the first render
Mount ==
  /\ viewPc[1] = "idle"
  /\ viewPc' = [viewPc EXCEPT ![1] = "called"]
  /\ UNCHANGED <<isLoading, success, entriesCount>>
  /\ UNCHANGED systemVars
  /\ UNCHANGED consolidateVars
  /\ UNCHANGED pipelineVars

\* onAction of Retry Update: the four set calls, then retryUpdate()
RetryUpdate(u) ==
  /\ ~running
  /\ u > 1
  /\ viewPc[u] = "idle"
  /\ viewPc[u - 1] # "idle"
  /\ isLoading' = TRUE
  /\ success' = FALSE
  /\ entriesCount' = 0
  /\ viewPc' = [viewPc EXCEPT ![u] = "called"]
  /\ UNCHANGED systemVars
  /\ UNCHANGED consolidateVars
  /\ UNCHANGED pipelineVars

\* const data = await updateChangelog(...): the call runs up to its await
CallUpdate(u) == entersCall(u) /\ StartUpdate(u)

\* the request of call u fails, or its markdown arrives and is processed
UpdateRejects(u) == ~running /\ FetchFailed(u)

UpdateCompletes(u) == ~running /\ Process(u)

\* after the await, in the try block: setEntriesCount(data.length),
\* setSuccess(true), then await showToast
Succeeded(u) ==
  /\ settled(u)
  /\ pc[u] = "returned"
  /\ entriesCount' = Len(returned[u][1])
  /\ success' = TRUE
  /\ viewPc' = [viewPc EXCEPT ![u] = "successToast"]
  /\ UNCHANGED isLoading
  /\ UNCHANGED systemVars
  /\ UNCHANGED consolidateVars
  /\ UNCHANGED pipelineVars

\* the catch block: setSuccess(false), then await showToast
Failed(u) ==
  /\ settled(u)
  /\ pc[u] = "threw"
  /\ success' = FALSE
  /\ viewPc' = [viewPc EXCEPT ![u] = "failureToast"]
  /\ UNCHANGED <<isLoading, entriesCount>>
  /\ UNCHANGED systemVars
  /\ UNCHANGED consolidateVars
  /\ UNCHANGED pipelineVars

\* showToast of the try block rejects: the catch block runs
ToastRejected(u) ==
  /\ ~running
  /\ viewPc[u] = "successToast"
  /\ success' = FALSE
  /\ viewPc' = [viewPc EXCEPT ![u] = "failureToast"]
  /\ UNCHANGED <<isLoading, entriesCount>>
  /\ UNCHANGED systemVars
  /\ UNCHANGED consolidateVars
  /\ UNCHANGED pipelineVars

\* the awaited showToast settles: finally { setIsLoading(false) }
ToastSettled(u) ==
  /\ ~running
  /\ viewPc[u] \in { "successToast", "failureToast" }
  /\ isLoading' = FALSE
  /\ viewPc' = [viewPc EXCEPT ![u] = IF viewPc[u] = "successToast"
                                     THEN "done" ELSE "failed"]
  /\ UNCHANGED <<success, entriesCount>>
  /\ UNCHANGED systemVars
  /\ UNCHANGED consolidateVars
  /\ UNCHANGED pipelineVars

NextView ==
  \/ Mount
  \/ \E u \in Calls : RetryUpdate(u)
  \/ \E u \in Calls : CallUpdate(u)
  \/ \E u \in Calls : UpdateRejects(u)
  \/ \E u \in Calls : UpdateCompletes(u)
  \/ \E u \in Calls : Succeeded(u)
  \/ \E u \in Calls : Failed(u)
  \/ \E u \in Calls : ToastRejected(u)
  \/ \E u \in Calls : ToastSettled(u)

SpecView == InitView /\ [][NextView]_vars

(***************************************************************************)
(* Forms of a version string, read off the string itself.                  *)
(***************************************************************************)
isPatch(v) ==
  /\ Len(v) = 5
  /\ v[1] >= 0 /\ v[2] = DOT /\ v[3] >= 0 /\ v[4] = DOT /\ v[5] >= 0

isWildcard(v) ==
  /\ Len(v) = 5
  /\ v[1] >= 0 /\ v[2] = DOT /\ v[3] >= 0 /\ v[4] = DOT /\ v[5] = X

isRange(v) == Len(v) = 11 /\ v[6] = DASH

leftEnd(v) == SubSeq(v, 1, 5)
rightEnd(v) == SubSeq(v, 7, 11)

records(s) == { s[i] : i \in 1..Len(s) }

(***************************************************************************)
(* C1.  Within one description group (description of at least 10           *)
(* characters) consolidateVersions emits exactly one record per maximal    *)
(* run of consecutive patches 0.M.K .. 0.M.(K+N-1): its version is         *)
(* "0.M.K-0.M.(K+N-1)" when N >= 2 and the original version string when    *)
(* N = 1, and no other record with that description is emitted for the     *)
(* versions of the run.                                                    *)
(***************************************************************************)
patchesOf(pm, d) ==
  { pm[i].version : i \in { k \in 1..Len(pm) :
        /\ pm[k].description = d
        /\ isPatch(pm[k].version)
        /\ pm[k].version[1] = 0 } }

isMaximalRun(S, m, k, n) ==
  /\ \A p \in k..(k + n - 1) : Ver(0, m, p) \in S
  /\ Ver(0, m, k - 1) \notin S
  /\ Ver(0, m, k + n) \notin S

runVersion(m, k, n) ==
  IF n = 1 THEN Ver(0, m, k)
  ELSE Ver(0, m, k) \o <<DASH>> \o Ver(0, m, k + n - 1)

mentions(v, S) ==
  \/ v \in S
  \/ isRange(v) /\ (leftEnd(v) \in S \/ rightEnd(v) \in S)

OneRecordPerRun ==
  phase # "input" =>
    \A d \in { patchesDict[i].description : i \in 1..Len(patchesDict) } :
      Len(d) >= 10 =>
        LET S == patchesOf(patchesDict, d) IN
        \A first \in S : \A n \in 1..Len(patchesDict) :
          LET m == first[3]
              k == first[5]
              run == { Ver(0, m, p) : p \in k..(k + n - 1) }
          IN isMaximalRun(S, m, k, n) =>
               /\ Cardinality({ i \in 1..Len(consolidated) :
                     /\ consolidated[i].description = d
                     /\ consolidated[i].version = runVersion(m, k, n) }) = 1
               /\ \A i \in 1..Len(consolidated) :
                     (/\ consolidated[i].description = d
                      /\ mentions(consolidated[i].version, run))
                     => consolidated[i].version = runVersion(m, k, n)

(***************************************************************************)
(* C2.  Consolidation is idempotent: the records emitted by                *)
(* consolidateVersions, fed back as a PatchMap and consolidated again,     *)
(* give the identical set of records (versions, descriptions and links).   *)
(***************************************************************************)
ConsolidationIdempotent ==
  phase = "twice" =>
    /\ records(reconsolidated) = records(consolidated)
    /\ Len(reconsolidated) = Len(consolidated)

\* a range next to another record of the same description has been
\* consolidated a second time
RangeReconsolidated ==
  /\ phase = "twice"
  /\ \E i, j \in 1..Len(consolidated) :
       /\ i # j
       /\ isRange(consolidated[i].version)
       /\ consolidated[j].description = consolidated[i].description
       /\ consolidated[i].detailLink # Undefined

(***************************************************************************)
(* C3.  The returned sequence is a stable newest-first sort of the emitted *)
(* records: keys (right endpoint of a range, x counted as 999) never       *)
(* increase along the sequence, and records of equal key keep the order in *)
(* which they were emitted.                                                *)
(***************************************************************************)
sortKey(v) ==
  LET e == IF isRange(v) THEN rightEnd(v) ELSE v
      num(t) == IF t = X THEN 999 ELSE IF t >= 0 THEN t ELSE 0
  IN <<num(e[1]), num(e[3]), num(e[5])>>

lexGreaterOrEqual(a, b) ==
  \/ a[1] > b[1]
  \/ a[1] = b[1] /\ a[2] > b[2]
  \/ a[1] = b[1] /\ a[2] = b[2] /\ a[3] >= b[3]

position(s, r) == CHOOSE i \in 1..Len(s) : s[i] = r

StableNewestFirst ==
  phase # "input" =>
    LET em == emitted(patchesDict) IN
    /\ Len(consolidated) = Len(em)
    /\ records(consolidated) = records(em)
    /\ \A i, j \in 1..Len(consolidated) :
         i < j =>
           /\ lexGreaterOrEqual(sortKey(consolidated[i].version),
                                sortKey(consolidated[j].version))
           /\ sortKey(consolidated[i].version) = sortKey(consolidated[j].version)
                => position(em, consolidated[i]) < position(em, consolidated[j])

\* three records have been ordered, two of them with equal keys
TiedKeysOrdered ==
  /\ phase = "once"
  /\ Len(consolidated) = 3
  /\ \E i, j \in 1..Len(consolidated) :
       /\ i < j
       /\ sortKey(consolidated[i].version) = sortKey(consolidated[j].version)
  /\ consolidated # emitted(patchesDict)

(***************************************************************************)
(* C4.  A wildcard record 0.M.x precedes every record of the same minor    *)
(* series (a patch 0.M.P, or a range whose right endpoint is 0.M.P), for   *)
(* any patch number P.                                                     *)
(***************************************************************************)
WildcardFirstInSeries ==
  phase # "input" =>
    \A i, j \in 1..Len(consolidated) :
      LET w == consolidated[i].version
          v == consolidated[j].version
          e == IF isRange(v) THEN rightEnd(v) ELSE v
      IN (/\ isWildcard(w) /\ w[1] = 0
          /\ isPatch(e)
          /\ e[1] = w[1] /\ e[3] = w[3])
         => i < j

(***************************************************************************)
(* C5.  getLatestVersion returns none for an empty stored sequence,        *)
(* otherwise the first record in stored order whose version is not a       *)
(* wildcard label, and the very first record when every record is a        *)
(* wildcard label.                                                         *)
(***************************************************************************)
LatestIsFirstNonWildcard ==
  (/\ lastRead.op = "latest"
   /\ lastRead.changelog.status = "returned"
   /\ lastRead.changelog.isArray)
  => LET cl == lastRead.changelog.items
         specific == { i \in 1..Len(cl) : ~isWildcard(cl[i].version) }
     IN IF cl = <<>> THEN lastRead.result.status = "null"
        ELSE /\ lastRead.result.status = "entry"
             /\ lastRead.result.entry =
                  IF specific = {} THEN <<cl[1]>>
                  ELSE <<cl[CHOOSE i \in specific : \A j \in specific : i <= j]>>

(***************************************************************************)
(* C6.  loadChangelog never raises to its caller and always returns a      *)
(* sequence of records, whatever the state of the storage location and of  *)
(* the stored snapshot.                                                    *)
(***************************************************************************)
LoadNeverRaises ==
  lastRead.op = "load" =>
    /\ lastRead.changelog.status = "returned"
    /\ lastRead.changelog.isArray

(***************************************************************************)
(* C7.  Round trip: after a successful save, loadChangelog returns a       *)
(* sequence equal to the saved one, in the same order and field for field, *)
(* detailLink being present exactly where it was before the save.          *)
(***************************************************************************)
SaveLoadRoundTrip ==
  written.ok =>
    \A mkdirOk \in BOOLEAN :
      loadChangelog(dirExists, mkdirOk, file) = Returned(TRUE, written.changelog)

\* a saved sequence with a linked and an unlinked record has been loaded
LoadedAfterSave ==
  /\ written.ok
  /\ lastRead.op = "load"
  /\ lastRead.changelog = Returned(TRUE, written.changelog)
  /\ \E i, j \in 1..Len(written.changelog) :
       /\ written.changelog[i].detailLink # Undefined
       /\ written.changelog[j].detailLink = Undefined

(***************************************************************************)
(* C8.  updateChangelog fails, returning no sequence, whenever the fetch   *)
(* reports an error or yields no text, and it does so after exactly one    *)
(* fetch attempt.                                                          *)
(***************************************************************************)
FetchFailureFailsOnce ==
  \A u \in Calls :
    response[u].kind \in FetchFailures =>
      /\ pc[u] = "threw"
      /\ returned[u] = <<>>
      /\ fetches[u] = 1

\* each kind of fetch failure has ended an update
FetchFailureSeen ==
  \E u, v \in Calls :
    /\ pc[u] = "threw" /\ response[u].kind = "error"
    /\ pc[v] = "threw" /\ response[v].kind = "empty"

(***************************************************************************)
(* C9.  An update that fails with a fetch error leaves the persisted       *)
(* snapshot as it was; the snapshot changes only in a step of an update    *)
(* whose fetch gave text.                                                  *)
(***************************************************************************)
FetchFailureKeepsSnapshot ==
  [][ /\ \A u \in Calls :
           (pc[u] = "awaiting" /\ response'[u].kind \in FetchFailures)
           => file' = file
      /\ file' # file =>
           \E u \in Calls : pc[u] = "awaiting" /\ response'[u].kind = "text"
    ]_vars

\* an update has failed on its fetch while a non-empty snapshot is stored
FailedOverSnapshot ==
  /\ \E u \in Calls : pc[u] = "threw" /\ response[u].kind \in FetchFailures
  /\ file.kind = "array"
  /\ file.items # <<>>

(***************************************************************************)
(* C10.  When updateChangelog succeeds, the sequence it returns is the one *)
(* it persisted: loadChangelog run right after the save returns a sequence *)
(* equal to the update's return value.                                     *)
(***************************************************************************)
ReturnsWhatItPersisted ==
  [][ \A u \in Calls :
        (pc[u] = "awaiting" /\ pc'[u] = "returned") =>
          \A mkdirOk \in BOOLEAN :
            loadChangelog(dirExists', mkdirOk, file')
              = Returned(TRUE, returned'[u][1])
    ]_vars

\* an update has returned records that the sort had to reorder, and a load
\* has delivered the same sequence
ReturnedAndLoaded ==
  \E u \in Calls :
    /\ pc[u] = "returned"
    /\ returned[u] # <<>>
    /\ returned[u][1] # emitted(extractAll(Feeds[response[u].text]))
    /\ lastRead.op = "load"
    /\ lastRead.changelog = Returned(TRUE, returned[u][1])

(***************************************************************************)
(* The calls whose writeFileSync completed.                                 *)
(***************************************************************************)
hasSaved(u) == saved[u].outcome = "ok"

\* the stored objects of a changelog, as a set
storedRecords(changelog) ==
  { stringify(changelog)[i] : i \in 1..Len(changelog) }

(***************************************************************************)
(* C11.  A successful update replaces the snapshot by the pipeline output  *)
(* of its own fetched text: whatever was stored before, and whatever any   *)
(* earlier update did, the file after the save holds exactly the records   *)
(* computed from that text and nothing else, so a record of the previous   *)
(* snapshot is still there only if the new text yields it again.           *)
(***************************************************************************)
SnapshotFullyReplaced ==
  [][ \A u \in Calls :
        (pc[u] = "awaiting" /\ pc'[u] = "returned") =>
          file' = File("array", stringify(changelogOf(Feeds[response'[u].text])))
    ]_vars

\* an update has saved over the snapshot of an earlier update, and a record
\* of the earlier snapshot is not in the new one
EarlierSnapshotReplaced ==
  \E u, v \in Calls :
    /\ u # v
    /\ hasSaved(u)
    /\ written.ok /\ written.by = v
    /\ file = File("array", stringify(returned[v][1]))
    /\ \E r \in storedRecords(returned[u][1]) :
         r \notin storedRecords(returned[v][1])


(***************************************************************************)
(* C12.  When the directory cannot be created or the file cannot be        *)
(* written, updateChangelog throws to its caller and returns no sequence;  *)
(* a call that returned a sequence is one whose writeFileSync completed.   *)
(***************************************************************************)
WriteFailureFailsUpdate ==
  \A u \in Calls :
    /\ saved[u].outcome \in { "nodir", "denied", "partial" } =>
         pc[u] = "threw" /\ returned[u] = <<>>
    /\ pc[u] = "returned" => hasSaved(u)

\* one update has failed to create the directory and another has failed
\* while writing the file
CreateAndWriteFailed ==
  \E u, v \in Calls :
    /\ saved[u].outcome = "nodir"
    /\ saved[v].outcome \in { "denied", "partial" }
    /\ pc[u] = "threw" /\ pc[v] = "threw"


(***************************************************************************)
(* C13.  Saving is atomic for the readers: in every step of an update      *)
(* that got text, also one whose writeFileSync fails, taken when the file  *)
(* is absent or holds a saved sequence, what loadChangelog reads from the  *)
(* file afterwards is either what it read before the step (the complete    *)
(* previous sequence) or the complete new sequence.                        *)
(***************************************************************************)
SaveIsAtomic ==
  [][ \A u \in Calls :
        (/\ pc[u] = "awaiting" /\ response'[u].kind = "text"
         /\ file.kind \in { "absent", "array" }) =>
          \/ loadChangelog(TRUE, TRUE, file') = loadChangelog(TRUE, TRUE, file)
          \/ loadChangelog(TRUE, TRUE, file')
               = Returned(TRUE, changelogOf(Feeds[response'[u].text]))
    ]_vars


(***************************************************************************)
(* C14.  When two updates have both saved, the file holds the output of    *)
(* the one whose writeFileSync ran last and no record that only the other  *)
(* one produced; and an update is never held up by another one: a call     *)
(* that has not started can start and a suspended call can take its        *)
(* response, whatever the other calls are doing.                           *)
(***************************************************************************)
LastSaveWins ==
  /\ \A u, v \in Calls :
       (u # v /\ hasSaved(u) /\ hasSaved(v) /\ written.ok /\ written.by = v) =>
         /\ file = File("array", stringify(returned[v][1]))
         /\ \A i \in 1..Len(file.items) :
              file.items[i] \in storedRecords(returned[v][1])
  /\ \A u \in Calls :
       /\ pc[u] = "idle" => ENABLED StartUpdate(u)
       /\ pc[u] = "awaiting" => ENABLED FetchFailed(u) /\ resumes(u)

\* two updates were suspended together, both have saved, and a record of
\* the one that saved first is not in the file
OverlappingSavesDone ==
  \E u, v \in Calls :
    /\ u # v
    /\ hasSaved(u) /\ v \in saved[u].during
    /\ hasSaved(v) /\ written.ok /\ written.by = v
    /\ \E r \in storedRecords(returned[u][1]) : r \notin storedRecords(returned[v][1])


(***************************************************************************)
(* C15.  A loadChangelog or getLatestVersion call made while a fetch is    *)
(* outstanding leaves the file alone and returns what the file holds, the  *)
(* snapshot from before that update.  The file changes only in the step    *)
(* in which an update takes its response, and that step carries the call   *)
(* from its await to its end: no read and no step of another call falls    *)
(* between the response and the completed save.                            *)
(***************************************************************************)
StaleReadsAtomicPipeline ==
  [][ /\ (fetchOutstanding /\ pc' = pc) =>
           /\ file' = file
           /\ lastRead'.changelog = loadChangelog(TRUE, TRUE, file)
      /\ file' # file =>
           \E u \in Calls :
             /\ pc[u] = "awaiting" /\ pc'[u] \in { "returned", "threw" }
             /\ response[u].kind = "none" /\ response'[u].kind = "text"
      /\ \A u \in Calls :
           (response[u].kind = "none" /\ response'[u].kind = "text") =>
             /\ pc'[u] \in { "returned", "threw" }
             /\ lastRead' = lastRead
             /\ \A v \in Calls \ { u } :
                  pc'[v] = pc[v] /\ response'[v] = response[v]
    ]_vars

\* while a fetch was outstanding getLatestVersion returned a record of the
\* stored snapshot, and an update has since saved a snapshot without it
StaleReadSeen ==
  /\ lastRead.op = "latest"
  /\ lastRead.fetching
  /\ lastRead.result.status = "entry"
  /\ file.kind = "array"
  /\ \A i \in 1..Len(file.items) :
       parseEntry(file.items[i]) # lastRead.result.entry[1]


(***************************************************************************)
(* The candidates of a markdown text: what the patterns of updateChangelog *)
(* capture before any cleaning or length test.                             *)
(***************************************************************************)
noCandidates(md) ==
  /\ majorVersionSections(md) = <<>>
  /\ inlineMatches(md) = <<>>
  /\ lineMatches(md) = <<>>
  /\ patchesSectionsFrom(md, 1) = <<>>

(***************************************************************************)
(* C16.  A text in which no pattern matches does not make the update fail: *)
(* the call throws only if writeFileSync fails, otherwise it returns the   *)
(* empty sequence and the file holds the empty array, whatever it held     *)
(* before.                                                                 *)
(***************************************************************************)
ExtractionMissSucceeds ==
  [][ \A u \in Calls :
        (/\ pc[u] = "awaiting" /\ response'[u].kind = "text"
         /\ noCandidates(Feeds[response'[u].text])) =>
          /\ pc'[u] = "threw" => saved'[u].outcome \in { "denied", "partial" }
          /\ saved'[u].outcome = "ok" =>
               /\ pc'[u] = "returned"
               /\ returned'[u] = << <<>> >>
               /\ file' = File("array", <<>>)
          /\ saved'[u].outcome \in WriteOutcomes
    ]_vars

\* an update whose text had no candidate has returned the empty sequence and
\* the empty array has replaced the records another update had saved
EmptySnapshotSaved ==
  \E u, v \in Calls :
    /\ pc[u] = "returned"
    /\ noCandidates(Feeds[response[u].text])
    /\ returned[u] = << <<>> >>
    /\ file = File("array", <<>>)
    /\ written.by = u
    /\ hasSaved(v) /\ returned[v][1] # <<>>


(***************************************************************************)
(* C17.  Every record that updateChangelog has returned, and every record  *)
(* in the file it has written, has a description of at least 10            *)
(* characters, whatever text was fetched.                                  *)
(***************************************************************************)
DescriptionsAtLeastTen ==
  /\ \A u \in Calls :
       returned[u] # <<>> =>
         \A i \in 1..Len(returned[u][1]) :
           Len(returned[u][1][i].description) >= 10
  /\ file.kind = "array" =>
       \A i \in 1..Len(file.items) : Len(file.items[i].description) >= 10

\* an update has returned records from a text that also held a candidate of
\* fewer than 10 characters
ShortCandidateDropped ==
  \E u \in Calls :
    /\ pc[u] = "returned"
    /\ returned[u][1] # <<>>
    /\ file = File("array", stringify(returned[u][1]))
    /\ \E i \in 1..Len(inlineMatches(Feeds[response[u].text])) :
         LET desc == cleanDescription(inlineMatches(Feeds[response[u].text])[i].text)
         IN desc # "" /\ Len(desc) < 10


(***************************************************************************)
(* C18.  Every record that updateChangelog has returned or written has a   *)
(* version of one of three forms: a patch version, a wildcard label, or a  *)
(* range whose two endpoints are patch versions; a wildcard label is never *)
(* an endpoint of a range.                                                 *)
(***************************************************************************)
wellFormedVersion(v) ==
  \/ isPatch(v)
  \/ isWildcard(v)
  \/ isRange(v) /\ isPatch(leftEnd(v)) /\ isPatch(rightEnd(v))

VersionsWellFormed ==
  /\ \A u \in Calls :
       returned[u] # <<>> =>
         \A i \in 1..Len(returned[u][1]) :
           wellFormedVersion(returned[u][1][i].version)
  /\ file.kind = "array" =>
       \A i \in 1..Len(file.items) : wellFormedVersion(file.items[i].version)


(***************************************************************************)
(* The working map allPatches as it stands after each fold of              *)
(* updateChangelog: empty, after each major-version section, after the     *)
(* merge of the individual patches, after the line pattern, after the      *)
(* Patches sections.  patchesAfter(content, k) is the map that             *)
(* extractIndividualPatches has built from its first k matches.            *)
(***************************************************************************)
stages(md) ==
  LET sections == majorVersionSections(md)
      afterSection == [k \in 1..Len(sections) |->
                         processSections(<<>>, SubSeq(sections, 1, k))]
      a1 == processSections(<<>>, sections)
      a2 == mergeIndividual(a1, extractIndividualPatches(md))
      a3 == mergeLines(a2, lineMatches(md))
      a4 == mergePatchesSections(a3, patchesSectionsFrom(md, 1))
  IN << <<>> >> \o afterSection \o <<a2, a3, a4>>

patchesAfter(content, k) ==
  collectPatches(SubSeq(inlineMatches(content), 1, k), <<>>)

\* from map s to map t every description stays or is replaced by a longer one
descriptionsGrow(s, t) ==
  \A i \in 1..Len(s) :
    /\ has(t, s[i].version)
    /\ \/ get(t, s[i].version).description = s[i].description
       \/ Len(get(t, s[i].version).description) > Len(s[i].description)

\* from map s to map t every link that is there stays as it is
linksStay(s, t) ==
  \A i \in 1..Len(s) :
    s[i].detailLink # Undefined => linkOf(t, s[i].version) = s[i].detailLink

\* the texts the calls have processed
processedTexts ==
  { Feeds[response[u].text] : u \in { c \in Calls : response[c].kind = "text" } }

(***************************************************************************)
(* C19.  Merge rule for descriptions: in every fold of a processed text,   *)
(* and between the matches of extractIndividualPatches, the description    *)
(* stored for a version is kept, or replaced by a strictly longer one.     *)
(***************************************************************************)
DescriptionsOnlyGrow ==
  \A md \in processedTexts :
    /\ \A k \in 1..(Len(stages(md)) - 1) :
         descriptionsGrow(stages(md)[k], stages(md)[k + 1])
    /\ \A k \in 1..Len(inlineMatches(md)) :
         descriptionsGrow(patchesAfter(md, k - 1), patchesAfter(md, k))

(***************************************************************************)
(* C20.  Merge rule for links: in every fold of a processed text, a detail *)
(* link that a version's entry has is neither changed nor removed.         *)
(***************************************************************************)
LinksNeverOverwritten ==
  \A md \in processedTexts :
    \A k \in 1..(Len(stages(md)) - 1) :
      linksStay(stages(md)[k], stages(md)[k + 1])


(***************************************************************************)
(* String.prototype.startsWith on a returned description.                  *)
(***************************************************************************)
startsWith(s, prefix) ==
  Len(s) >= Len(prefix) /\ SubSeq(s, 1, Len(prefix)) = prefix

(***************************************************************************)
(* C23.  cleanDescription never returns a non-empty string that begins     *)
(* with "of " or "until ": whatever the fragment, also one in which        *)
(* deleting a leading URL leaves the prefix behind whitespace, the result  *)
(* is empty or begins with neither.                                        *)
(***************************************************************************)
NoTruncatedResult ==
  phase = "cleaned" =>
    \/ cleaned = ""
    \/ ~startsWith(cleaned, "of ") /\ ~startsWith(cleaned, "until ")


(***************************************************************************)
(* The cleaning contract, step by step as the design states it, each step  *)
(* written on the positions of the text: which tokens a step removes and   *)
(* which it keeps.                                                         *)
(***************************************************************************)
dropFirst(s, n) == SubSeq(s, n + 1, Len(s))

\* length of the longest prefix of s whose tokens are all in set
leadingRun(s, set) ==
  Cardinality({ k \in 1..Len(s) : \A j \in 1..k : s[j] \in set })

\* the tokens of s at the positions in keep, in their order
keepAt(s, keep) ==
  [k \in 1..Cardinality(keep) |->
     s[CHOOSE i \in keep : Cardinality({ j \in keep : j < i }) = k - 1]]

\* trim outer whitespace
trimOuter(s) ==
  LET solid == { i \in 1..Len(s) : s[i] \notin Whitespace }
  IN keepAt(s, { i \in 1..Len(s) :
                   \E a, b \in solid : a <= i /\ i <= b })

\* strip a leading run of the given punctuation plus following whitespace
stripRun(s, set) ==
  IF leadingRun(s, set) = 0 THEN s
  ELSE LET rest == dropFirst(s, leadingRun(s, set))
       IN dropFirst(rest, leadingRun(rest, Whitespace))

\* position of the ")" that ends a link [text](url) opening at i, or 0
linkEnd(s, i) ==
  LET closers == { j \in (i + 2)..Len(s) :
                     /\ s[j] = "]"
                     /\ \A m \in (i + 1)..(j - 1) : s[m] # "]" }
      ends == { k \in 1..Len(s) : \E j \in closers :
                  /\ j + 1 <= Len(s) /\ s[j + 1] = "("
                  /\ k >= j + 3 /\ s[k] = ")"
                  /\ \A m \in (j + 2)..(k - 1) : s[m] # ")" }
  IN IF s[i] = "[" /\ ends # {} THEN CHOOSE k \in ends : TRUE ELSE 0

\* rewrite every [text](url) to text
RECURSIVE rewriteFrom(_, _)
rewriteFrom(s, i) ==
  IF i > Len(s) THEN <<>>
  ELSE IF linkEnd(s, i) # 0
  THEN LET j == CHOOSE m \in (i + 2)..Len(s) :
                  s[m] = "]" /\ \A n \in (i + 1)..(m - 1) : s[n] # "]"
       IN SubSeq(s, i + 1, j - 1) \o rewriteFrom(s, linkEnd(s, i) + 1)
  ELSE <<s[i]>> \o rewriteFrom(s, i + 1)

\* delete bare URLs: a URL runs up to the next whitespace
deleteUrls(s) ==
  keepAt(s, { i \in 1..Len(s) :
                ~ \E u \in 1..i :
                    /\ s[u] \in Urls
                    /\ \A m \in u..i : s[m] \notin Whitespace })

\* strip a leading heading marker
stripMarker(s) ==
  IF Len(s) >= 2 /\ s[1] = "#" /\ s[2] = "#"
  THEN dropFirst(dropFirst(s, 2), leadingRun(dropFirst(s, 2), Whitespace))
  ELSE s

\* strip a leading numeric-colon artifact such as "12): "
stripArtifact(s) ==
  IF Len(s) >= 3 /\ s[1] \in DigitRuns /\ s[2] = ")" /\ s[3] = ":"
  THEN dropFirst(dropFirst(s, 3), leadingRun(dropFirst(s, 3), Whitespace))
  ELSE s

\* strip a leading "nightly", whatever its case
stripWord(s) ==
  IF s # <<>> /\ s[1] \in { "nightly", "Nightly", "NIGHTLY" }
  THEN dropFirst(dropFirst(s, 1), leadingRun(dropFirst(s, 1), Whitespace))
  ELSE s

\* position i lies in a whitespace run that holds a newline
inNewlineRun(s, i) ==
  \E n \in 1..Len(s) :
    /\ s[n] = "\n"
    /\ \A m \in 1..Len(s) :
         ((n <= m /\ m <= i) \/ (i <= m /\ m <= n)) => s[m] \in Whitespace

\* position i starts a whitespace run
startsRun(s, i) == s[i] \in Whitespace /\ (i = 1 \/ s[i - 1] \notin Whitespace)

\* collapse embedded newlines, with the whitespace around them, to one space
collapseNewlines(s) ==
  keepAt([i \in 1..Len(s) |-> IF inNewlineRun(s, i) THEN " " ELSE s[i]],
         { i \in 1..Len(s) : inNewlineRun(s, i) => startsRun(s, i) })

\* collapse whitespace runs to one space
collapseRuns(s) ==
  keepAt([i \in 1..Len(s) |-> IF s[i] \in Whitespace THEN " " ELSE s[i]],
         { i \in 1..Len(s) : s[i] \in Whitespace => startsRun(s, i) })

\* the words of a text: every stretch of prose cut at its spaces, so that
\* no token holds whitespace inside
RECURSIVE words(_)
words(s) ==
  IF s = <<>> THEN <<>>
  ELSE IF Head(s) \notin Whitespace /\ firstSpace(Head(s)) # 0
  THEN <<SubSeq(Head(s), 1, firstSpace(Head(s)) - 1), " ">>
       \o words(<<SubSeq(Head(s), firstSpace(Head(s)) + 1, Len(Head(s)))>> \o Tail(s))
  ELSE <<Head(s)>> \o words(Tail(s))

\* the text after the ten steps that precede the test for a truncated start
stepsApplied(raw) ==
  collapseRuns(collapseNewlines(stripWord(
    stripRun(stripArtifact(stripMarker(deleteUrls(rewriteFrom(
      stripRun(trimOuter(words(raw)), { ".", ",", ":", ";", "-", ")", "]" }), 1)))),
      { ")", ":", "]", "[" }))))

beginsTruncated(text) == startsWith(text, "of ") \/ startsWith(text, "until ")

\* the eleven steps of the contract, in its order
composition(raw) ==
  IF beginsTruncated(join(stepsApplied(raw))) THEN ""
  ELSE join(stepsApplied(raw))

\* the same, the outer whitespace trimmed once more at the end
compositionTrimmed(raw) ==
  IF beginsTruncated(join(stepsApplied(raw))) THEN ""
  ELSE join(trimOuter(stepsApplied(raw)))

(***************************************************************************)
(* C24.  cleanDescription is total and equals, for every fragment, the     *)
(* composition of the steps of the contract in their order: trim, leading  *)
(* connector punctuation, links to their text, bare URLs, heading marker,  *)
(* numeric-colon artifact, stray brackets, "nightly", newlines,            *)
(* whitespace runs, test for a truncated start.                            *)
(***************************************************************************)
CleanIsComposition ==
  phase = "cleaned" => cleaned = composition(fragment)

(***************************************************************************)
(* C24 as amended: cleanDescription is total and equals the composition of *)
(* the same steps in the same order followed by a last trim of the outer   *)
(* whitespace of a result that passed the test; the three examples give    *)
(* "Fixed a crash.", "See details" and the empty string.                   *)
(***************************************************************************)
CleanIsCompositionThenTrim ==
  phase = "cleaned" =>
    /\ cleaned = compositionTrimmed(fragment)
    /\ Len(cleaned) >= 0
    /\ fragment = DashExample => cleaned = "Fixed a crash."
    /\ fragment = LinkExample => cleaned = "See details"
    /\ fragment = TruncatedExample => cleaned = ""

\* a fragment with a link, then a space and a bare URL has been cleaned: the
\* link is rewritten, the URL deleted and the space left over trimmed away
LinkAndUrlCleaned ==
  /\ phase = "cleaned"
  /\ fragment = LinkExample \o <<" ", "https://x.com/y">>
  /\ cleaned = "See details"
  /\ join(stepsApplied(fragment)) = "See details "


(***************************************************************************)
(* C21.  No record that comes out of the extraction and consolidation of   *)
(* a text has a version with a non-zero major component, for a range at    *)
(* either endpoint; a patch version with a non-zero major component never  *)
(* enters the working map, and a wildcard label with one is dropped by     *)
(* consolidateVersions.                                                    *)
(***************************************************************************)
NoNonZeroMajor ==
  phase = "extracted" =>
    /\ \A i \in 1..Len(consolidated) :
         /\ consolidated[i].version[1] = 0
         /\ isRange(consolidated[i].version) =>
              rightEnd(consolidated[i].version)[1] = 0
    /\ \A i \in 1..Len(patchesDict) :
         isPatch(patchesDict[i].version) => patchesDict[i].version[1] = 0

\* a text with a 1.2.x section and a 1.2.3 patch has been processed: the
\* label is in the working map, and records have been emitted
MajorOneSeen ==
  /\ phase = "extracted"
  /\ has(patchesDict, Ver(1, 2, X))
  /\ \E i \in 1..Len(inlineMatches(markdownContent)) :
       inlineMatches(markdownContent)[i].version = Ver(1, 2, 3)
  /\ Len(consolidated) >= 2

(***************************************************************************)
(* The candidates of a text: the (version, raw description) pairs that the *)
(* four strategies capture.  The Patches sections hold lines of the text,  *)
(* so their pairs are among those of the inline pattern.                   *)
(***************************************************************************)
candidates(md) ==
  { [version |-> inlineMatches(md)[i].version, text |-> inlineMatches(md)[i].text] :
      i \in 1..Len(inlineMatches(md)) }
  \cup
  { [version |-> lineMatches(md)[i].version, text |-> lineMatches(md)[i].text] :
      i \in 1..Len(lineMatches(md)) }
  \cup
  { [version |-> majorVersionSections(md)[k][1].version,
     text |-> descMatch(majorVersionSections(md)[k])] :
      k \in { n \in 1..Len(majorVersionSections(md)) :
                descMatch(majorVersionSections(md)[n]) # <<>> } }

Blacklist == { "](", "]", ")", "](http", ":", "" }

(***************************************************************************)
(* C22.  The length filter discards a candidate only when its cleaned      *)
(* description is empty or shorter than 10 characters: a candidate with    *)
(* major component 0 whose cleaned description has 10 characters or more   *)
(* and is not a blacklisted fragment has its version in the working map.   *)
(***************************************************************************)
TenCharactersKept ==
  phase = "extracted" =>
    \A c \in candidates(markdownContent) :
      (/\ startsWithZeroDot(c.version)
       /\ Len(cleanDescription(c.text)) >= 10
       /\ cleanDescription(c.text) \notin Blacklist)
      => has(patchesDict, c.version)


(***************************************************************************)
(* The working map after the first k sections; afterSections(md, n) with n *)
(* the number of sections is the map at the end of the section strategy.   *)
(***************************************************************************)
afterSections(md, k) ==
  processSections(<<>>, SubSeq(majorVersionSections(md), 1, k))

sectionStrategy(md) == afterSections(md, Len(majorVersionSections(md)))

(***************************************************************************)
(* C25.  Every patch version found inside a section whose heading carries  *)
(* a link ends the section strategy with that section's link whenever it   *)
(* had no link when the section was reached, also when an earlier section  *)
(* had already put the version into the working map without a link.        *)
(***************************************************************************)
SectionPatchesInheritLink ==
  phase = "extracted" =>
    \A k \in 1..Len(majorVersionSections(markdownContent)) :
      LET section == majorVersionSections(markdownContent)[k]
          sectionPatches == extractIndividualPatches(section)
      IN extractDetailLink(section) # Undefined =>
           \A i \in 1..Len(sectionPatches) :
             linkOf(afterSections(markdownContent, k - 1), sectionPatches[i].version)
               = Undefined
             => linkOf(sectionStrategy(markdownContent), sectionPatches[i].version)
                  = extractDetailLink(section)

(***************************************************************************)
(* The sections as the design describes them: one for every marker line,   *)
(* running to the line before the next marker line or number line, or to   *)
(* the end of the text.                                                    *)
(***************************************************************************)
RECURSIVE markedSectionsFrom(_, _)
markedSectionsFrom(md, i) ==
  IF i > Len(md) THEN <<>>
  ELSE IF md[i].kind # "marker" THEN markedSectionsFrom(md, i + 1)
  ELSE LET j == firstOfKind(md, i + 1, { "marker", "number" })
           end == IF j = 0 THEN Len(md) ELSE j - 1
       IN <<SubSeq(md, i, end)>> \o markedSectionsFrom(md, end + 1)

markedSections(md) == markedSectionsFrom(md, 1)

(***************************************************************************)
(* C26.  The section strategy produces a section for every wildcard marker *)
(* that starts a line, running to the next marker, to a large number, or   *)
(* to the end of the text; the last section, also when no marker or number *)
(* follows it, gives the working map its wildcard description, its link    *)
(* and its embedded patches.                                               *)
(***************************************************************************)
EverySectionExtracted ==
  phase = "extracted" =>
    /\ majorVersionSections(markdownContent) = markedSections(markdownContent)
    /\ markedSections(markdownContent) # <<>> =>
         LET section == markedSections(markdownContent)[Len(markedSections(markdownContent))]
             map == sectionStrategy(markdownContent)
         IN /\ \A i \in 1..Len(extractIndividualPatches(section)) :
                 has(map, extractIndividualPatches(section)[i].version)
            /\ Len(cleanDescription(descMatch(section))) > 10 =>
                 /\ has(map, section[1].version)
                 /\ get(map, section[1].version).description
                      = cleanDescription(descMatch(section))
                 /\ get(map, section[1].version).detailLink
                      = extractDetailLink(section)


(***************************************************************************)
(* The strict three-component integer form 0.x.y.                          *)
(***************************************************************************)
strictForm(v) ==
  /\ Len(v) = 5
  /\ v[1] = 0
  /\ v[2] = DOT
  /\ v[3] \in Nat
  /\ v[4] = DOT
  /\ v[5] \in Nat

strictKey(entry) == strictForm(entry.version)

zeroDotKey(entry) == startsWithZeroDot(entry.version)

\* the versions a record's version string names: itself, or its two endpoints
endpoints(v) == IF isRange(v) THEN { leftEnd(v), rightEnd(v) } ELSE { v }

\* version v is the record's literal version, or lies in the span between
\* the two endpoints of its range (components read as versionParts reads them)
spans(recordVersion, v) ==
  IF isRange(recordVersion)
  THEN LET lo == versionParts(leftEnd(recordVersion))
           hi == versionParts(rightEnd(recordVersion))
           p == versionParts(v)
       IN /\ p[1] = lo[1] /\ p[2] = lo[2]
          /\ lo[3] <= p[3] /\ p[3] <= hi[3]
  ELSE recordVersion = v

(***************************************************************************)
(* C27.  A description group keeps only members of the strict form 0.x.y:  *)
(* every such member of a group with a description of at least 10          *)
(* characters is found in a record of that description, every other member *)
(* (such as a wildcard label 0.N.x) is never an endpoint of a record, and  *)
(* a group without a strict-form member emits no record.                   *)
(***************************************************************************)
OnlyStrictFormKept ==
  phase # "input" =>
    /\ \A j \in 1..Len(patchesDict) :
         strictKey(patchesDict[j]) /\ Len(patchesDict[j].description) >= 10 =>
           \E i \in 1..Len(consolidated) :
             /\ consolidated[i].description = patchesDict[j].description
             /\ spans(consolidated[i].version, patchesDict[j].version)
    /\ \A i \in 1..Len(consolidated) :
         \A e \in endpoints(consolidated[i].version) :
           \E j \in 1..Len(patchesDict) :
             /\ strictKey(patchesDict[j])
             /\ patchesDict[j].version = e
             /\ patchesDict[j].description = consolidated[i].description

(***************************************************************************)
(* C27 (amended).  A description group keeps only members whose version    *)
(* begins with "0.", patch versions and wildcard labels 0.N.x alike:       *)
(* every such member of a group with a description of at least 10          *)
(* characters is found in a record of that description, every other member *)
(* (such as 1.2.x) is never an endpoint of a record, and a group without a *)
(* member beginning with "0." emits no record.                             *)
(***************************************************************************)
OnlyZeroDotKept ==
  phase # "input" =>
    /\ \A j \in 1..Len(patchesDict) :
         zeroDotKey(patchesDict[j]) /\ Len(patchesDict[j].description) >= 10 =>
           \E i \in 1..Len(consolidated) :
             /\ consolidated[i].description = patchesDict[j].description
             /\ spans(consolidated[i].version, patchesDict[j].version)
    /\ \A i \in 1..Len(consolidated) :
         \A e \in endpoints(consolidated[i].version) :
           \E j \in 1..Len(patchesDict) :
             /\ zeroDotKey(patchesDict[j])
             /\ patchesDict[j].version = e
             /\ patchesDict[j].description = consolidated[i].description

\* a wildcard label of major 0 was emitted while a group holding only 1.2.x
\* emitted nothing
WildcardKeptOtherMajorDropped ==
  /\ phase = "once"
  /\ \E i \in 1..Len(consolidated) : consolidated[i].version = Ver(0, 48, X)
  /\ \E j \in 1..Len(patchesDict) :
       /\ patchesDict[j].version = Ver(1, 2, X)
       /\ Len(patchesDict[j].description) >= 10
       /\ \A i \in 1..Len(consolidated) :
            consolidated[i].description # patchesDict[j].description


\* the versions a record stands for: its literal version, or its endpoints
\* and every patch version of the span between them
represented(recordVersion) ==
  IF isRange(recordVersion)
  THEN LET lo == versionParts(leftEnd(recordVersion))
           hi == versionParts(rightEnd(recordVersion))
       IN endpoints(recordVersion)
            \cup { Ver(lo[1], lo[2], p) : p \in lo[3]..hi[3] }
  ELSE { recordVersion }

keys(pm) == { pm[j].version : j \in 1..Len(pm) }

(***************************************************************************)
(* C28.  Consolidation neither loses nor duplicates versions: every key    *)
(* beginning with "0." whose description has at least 10 characters is     *)
(* represented by exactly one record, which carries its description, and   *)
(* every version a record represents is a key of the PatchMap.             *)
(***************************************************************************)
NoVersionLostOrDuplicated ==
  phase # "input" =>
    /\ \A j \in 1..Len(patchesDict) :
         zeroDotKey(patchesDict[j]) /\ Len(patchesDict[j].description) >= 10 =>
           /\ Cardinality({ i \in 1..Len(consolidated) :
                              patchesDict[j].version
                                \in represented(consolidated[i].version) }) = 1
           /\ \A i \in 1..Len(consolidated) :
                patchesDict[j].version \in represented(consolidated[i].version)
                  => consolidated[i].description = patchesDict[j].description
    /\ \A i \in 1..Len(consolidated) :
         represented(consolidated[i].version) \subseteq keys(patchesDict)


distinctVersions(list) ==
  \A i, j \in 1..Len(list) : list[i].version = list[j].version => i = j

(***************************************************************************)
(* C29.  No two records of a sequence returned by consolidateVersions have *)
(* the same version string, on a PatchMap and on its own output read back  *)
(* as a PatchMap, so the version can serve as the unique key of a list.    *)
(***************************************************************************)
VersionIsUniqueKey ==
  /\ distinctVersions(consolidated)
  /\ distinctVersions(reconsolidated)

\* two records of one minor series, one of them a range, were returned twice
SeriesSplitInTwoRecords ==
  /\ phase = "twice"
  /\ Len(reconsolidated) >= 2
  /\ \E i, j \in 1..Len(consolidated) :
       /\ i # j
       /\ isRange(consolidated[i].version)
       /\ SubSeq(consolidated[i].version, 1, 3) = SubSeq(consolidated[j].version, 1, 3)


(***************************************************************************)
(* C30.  In the Update Changelog view, whenever isLoading is false no      *)
(* updateChangelog call started by the view is in flight, and the success  *)
(* flag and the entry count shown are the ones of the most recently        *)
(* started update, whatever the order of the update on mount, the Retry    *)
(* Update actions and the ends of their requests.                          *)
(***************************************************************************)
IdleViewShowsLatestUpdate ==
  isLoading = FALSE =>
    /\ \A u \in Calls : ~inFlight(u)
    /\ success = (viewPc[latestUpdate] \in { "successToast", "done" })
    /\ success => entriesCount = Len(returned[latestUpdate][1])


====
